---- MODULE Spec2Model ----
(***************************************************************************)
(* clux: the session registry (db.py), the tmux adapter (tmux.py), the     *)
(* Claude log scan (claude.py), the CLI commands (cli.py) and the TUI      *)
(* (tui/app.py), as one state machine.                                     *)
(*                                                                         *)
(* Time: every call of datetime.now() / time.time() that stamps a value    *)
(* returns a value strictly greater than every earlier stamp; the model    *)
(* draws the stamps from the counter clock.                                *)
(***************************************************************************)
EXTENDS Integers, Sequences, FiniteSets, TLC

VARIABLES
    store,          \* the sessions table: a set of rows
    tmuxSessions,   \* live tmux sessions: name -> number of attached clients
    tmuxInstalled,  \* shutil.which("tmux") is not None
    logs,           \* ~/.claude/projects: entries [wd, uuid, mtime]
    clock,          \* the last time stamp handed out
    nextId,         \* the next fresh uuid4 of a row
    procs,          \* CLI invocations of new / attach, each with its position
    tui             \* the CluxApp instance: open, show_archived, sessions, cwd

vars == <<store, tmuxSessions, tmuxInstalled, logs, clock, nextId, procs, tui>>

-----------------------------------------------------------------------------
(* Bounds of the model *)

MaxClock == 4
MaxIds == 2
MaxClients == 2

Names == {"a", "b"}
Dirs == {"/w1", "/w2"}
Uuids == {"u1"}
Procs == {1, 2}
\* the invocations that run commands in Spec
MainProcs == {1}
\* tmux sessions started outside clux, or left behind by a crash: two carry the
\* reserved prefix, and one of them has the name the TUI gives session "b"
ForeignTmux == {"main", "clux-b", "clux-zz"}
\* the one that no session of the model is ever named after
OrphanTmux == {"clux-zz"}

-----------------------------------------------------------------------------
(* Values *)

\* Python's None in a TEXT column that holds a time stamp
NoTime == -1
\* Python's None (or the empty string: the code tests truthiness) in a TEXT column
NoText == ""
-----------------------------------------------------------------------------
(* db.py *)

\* hashlib.md5(working_directory.encode()).hexdigest()[:6]
\* the characters [a-zA-Z0-9]
Alnum ==
    {"a", "b", "c", "d", "e", "f", "g", "h", "i", "j", "k", "l", "m", "n", "o", "p", "q",
     "r", "s", "t", "u", "v", "w", "x", "y", "z", "A", "B", "C", "D", "E", "F", "G", "H",
     "I", "J", "K", "L", "M", "N", "O", "P", "Q", "R", "S", "T", "U", "V", "W", "X", "Y",
     "Z", "0", "1", "2", "3", "4", "5", "6", "7", "8", "9"}

\* the characters [a-zA-Z0-9_-]
WordChars == Alnum \cup {"_", "-"}

CharAt(name, i) == SubSeq(name, i, i)

\* the longest name validate_session_name takes
SESSION_NAME_MAX == 50

\* SESSION_NAME_PATTERN.match(name) for ^[a-zA-Z0-9][a-zA-Z0-9_-]{0,49}$: the
\* pattern takes k characters, and $ matches at the end of the string and also
\* just before a newline that ends the string
PatternMatches(name) ==
    \E k \in 1..SESSION_NAME_MAX :
        /\ k <= Len(name)
        /\ CharAt(name, 1) \in Alnum
        /\ \A i \in 2..k : CharAt(name, i) \in WordChars
        /\ \/ k = Len(name)
           \/ k = Len(name) - 1 /\ CharAt(name, Len(name)) = "\n"

\* db.validate_session_name(name)[0]
validate_session_name(name) ==
    /\ Len(name) /= 0
    /\ Len(name) <= SESSION_NAME_MAX
    /\ PatternMatches(name)

DirHash(working_directory) ==
    CASE working_directory = "/w1" -> "a35671"
      [] working_directory = "/w2" -> "ae5c24"

make_tmux_name(session_name, working_directory) ==
    "clux-" \o session_name \o "-" \o DirHash(working_directory)

\* variants of the constraint that a schema could have declared instead: none at
\* all, and UNIQUE(name)
UniqueViolated_None(S, name, working_directory) == FALSE

UniqueViolated_NameOnly(S, name, working_directory) == \E r \in S : r.name = name

\* the UNIQUE(name, working_directory) constraint of SCHEMA: the INSERT raises
\* sqlite3.IntegrityError when it would be violated
UniqueViolated(S, name, working_directory) ==
    \E r \in S : r.name = name /\ r.working_directory = working_directory

\* a variant of NewRow that starts with a Claude session id
NewRow_WithId(session_id, name, working_directory, tmux_session, now) ==
    [id |-> session_id, name |-> name, working_directory |-> working_directory,
     tmux_session |-> tmux_session, claude_session_id |-> "u1",
     status |-> "idle", created_at |-> now, last_activity |-> now,
     archived_at |-> NoTime]

NewRow(session_id, name, working_directory, tmux_session, now) ==
    [id |-> session_id, name |-> name, working_directory |-> working_directory,
     tmux_session |-> tmux_session, claude_session_id |-> NoText,
     status |-> "idle", created_at |-> now, last_activity |-> now,
     archived_at |-> NoTime]

\* SessionDB.create_session, when the INSERT succeeds
create_session(S, session_id, name, working_directory, tmux_session, now) ==
    S \cup {NewRow(session_id, name, working_directory, tmux_session, now)}

\* SessionDB.get_session: the set holding the row, or empty
get_session(S, name, working_directory) ==
    {r \in S : r.name = name /\ r.working_directory = working_directory}

get_session_by_id(S, session_id) == {r \in S : r.id = session_id}

\* SessionDB.get_session_by_tmux_name: fetchone() of the matching rows
get_session_by_tmux_name(S, tmux_session) ==
    {r \in S : r.tmux_session = tmux_session}

\* the WHERE clause of SessionDB.list_sessions; working_directory = NoText is None
\* a variant of ListRows that never leaves the archived rows out
ListRows_ArchivedToo(S, include_archived, working_directory) ==
    {r \in S : working_directory = NoText \/ r.working_directory = working_directory}

\* the rows list_sessions selects (lines 245-257)
ListRows(S, include_archived, working_directory) ==
    {r \in S : /\ (include_archived \/ r.status /= "archived")
               /\ (working_directory = NoText \/ r.working_directory = working_directory)}

\* a variant of OrderByLastActivityDesc that puts the oldest first
RECURSIVE OrderByLastActivity_Asc(_)
OrderByLastActivity_Asc(R) ==
    IF R = {} THEN <<>>
    ELSE LET m == CHOOSE r \in R : \A q \in R : q.last_activity >= r.last_activity
         IN <<m>> \o OrderByLastActivity_Asc(R \ {m})

\* ORDER BY last_activity DESC (line 259)
RECURSIVE OrderByLastActivityDesc(_)
OrderByLastActivityDesc(R) ==
    IF R = {} THEN <<>>
    ELSE LET m == CHOOSE r \in R : \A q \in R : q.last_activity <= r.last_activity
         IN <<m>> \o OrderByLastActivityDesc(R \ {m})

list_sessions(S, include_archived, working_directory) ==
    OrderByLastActivityDesc(ListRows(S, include_archived, working_directory))

\* a variant of update_status that forgets the tmux session name
update_status_DropsTmux(S, session_id, status, now) ==
    {IF r.id = session_id
        THEN [r EXCEPT !.status = status, !.last_activity = now, !.tmux_session = NoText,
                       !.archived_at = IF status = "archived" THEN now ELSE @]
        ELSE r : r \in S}

update_status(S, session_id, status, now) ==
    {IF r.id = session_id
        THEN IF status = "archived"
                THEN [r EXCEPT !.status = status, !.archived_at = now, !.last_activity = now]
                ELSE [r EXCEPT !.status = status, !.last_activity = now]
        ELSE r : r \in S}

update_claude_session_id(S, session_id, claude_session_id) ==
    {IF r.id = session_id THEN [r EXCEPT !.claude_session_id = claude_session_id]
                          ELSE r : r \in S}

update_activity(S, session_id, now) ==
    {IF r.id = session_id THEN [r EXCEPT !.last_activity = now] ELSE r : r \in S}

delete_session(S, session_id) == {r \in S : r.id /= session_id}

\* a variant of restore_session that leaves archived_at as it is
restore_session_KeepsStamp(S, session_id) ==
    {IF r.id = session_id THEN [r EXCEPT !.status = "idle"] ELSE r : r \in S}

restore_session(S, session_id) ==
    {IF r.id = session_id THEN [r EXCEPT !.status = "idle", !.archived_at = NoTime]
                          ELSE r : r \in S}

-----------------------------------------------------------------------------
(* tmux.py *)

\* name.startswith("clux-")
HasPrefix(name) == Len(name) >= 5 /\ SubSeq(name, 1, 5) = "clux-"

\* tmux.list_sessions / get_sessions_map: name -> attached, where attached is
\* parts[1] == "1" of "#{session_name}:#{session_attached}:#{session_windows}"
\* (session_attached is the number of attached clients); empty without tmux
\* a variant of require_tmux that never raises
require_tmux_Passes(installed) == NoText

\* tmux.require_tmux(): the exception it raises, if any
require_tmux(installed) == IF installed THEN NoText ELSE "TmuxNotInstalled"

get_sessions_map(T, installed) ==
    IF installed THEN [n \in DOMAIN T |-> (T[n] = 1)] ELSE <<>>

session_exists(name, sessions_map) == name \in DOMAIN sessions_map

is_attached(name, sessions_map) ==
    IF name \in DOMAIN sessions_map THEN sessions_map[name] ELSE FALSE

\* tmux kill-session -t name
kill_session(T, name) == [n \in DOMAIN T \ {name} |-> T[n]]

\* tmux new-session -d -s name succeeded
tmux_new_session(T, name) == [n \in DOMAIN T \cup {name} |-> IF n = name THEN 0 ELSE T[n]]

-----------------------------------------------------------------------------
(* claude.py *)

\* the entries of the project log directory newer than after_timestamp
\* a variant of Candidates that also takes an entry modified at the timestamp
Candidates_AtOrAfter(L, working_directory, after_timestamp) ==
    {e \in L : e.wd = working_directory /\ e.mtime >= after_timestamp}

Candidates(L, working_directory, after_timestamp) ==
    {e \in L : e.wd = working_directory /\ e.mtime > after_timestamp}

\* claude.find_session_after_time: the uuid of the newest candidate, or None
find_session_after_time(L, working_directory, after_timestamp) ==
    LET c == Candidates(L, working_directory, after_timestamp)
    IN IF c = {} THEN NoText
       ELSE (CHOOSE e \in c : \A f \in c : f.mtime <= e.mtime).uuid

-----------------------------------------------------------------------------
(* Reconciliation: cli.sync_session_status and CluxApp.sync_session_status *)

\* a variant of DerivedStatus with the two live statuses exchanged
DerivedStatus_Swapped(tmux_session, exists_map, attached_map) ==
    IF tmux_session \in DOMAIN exists_map
       THEN IF tmux_session \in DOMAIN attached_map /\ attached_map[tmux_session]
               THEN "detached" ELSE "active"
       ELSE "idle"

\* the status derived from tmux; exists_map is what tmux.session_exists saw and
\* attached_map what tmux.is_attached saw
DerivedStatus(tmux_session, exists_map, attached_map) ==
    IF session_exists(tmux_session, exists_map)
       THEN IF is_attached(tmux_session, attached_map) THEN "active" ELSE "detached"
       ELSE "idle"

\* variants of the guard below: without the test for archived, and without the
\* test for a changed status
SyncWrites_ArchivedToo(session, new_status) ==
    /\ session.tmux_session /= NoText
    /\ new_status /= session.status

SyncWrites_Unchanged(session, new_status) ==
    /\ session.tmux_session /= NoText
    /\ session.status /= "archived"

\* the guard of the update_status call in both sync_session_status functions
SyncWrites(session, new_status) ==
    /\ session.tmux_session /= NoText
    /\ new_status /= session.status
    /\ session.status /= "archived"

\* a variant of try_capture_claude_id that stores nothing
try_capture_claude_id_Never(S, L, session) == S

\* cli._try_capture_claude_id, called when session.claude_session_id is falsy
try_capture_claude_id(S, L, session) ==
    LET claude_id == find_session_after_time(L, session.working_directory, session.created_at)
    IN IF claude_id /= NoText THEN update_claude_session_id(S, session.id, claude_id) ELSE S

\* cli.sync_session_status(db, session): the store and clock after it, whether
\* it called update_status, and whether it called update_claude_session_id; the
\* session is the object the caller read, which the rows may have moved on from
sync_session_status(S, clk, L, session, exists_map, attached_map) ==
    LET new_status == DerivedStatus(session.tmux_session, exists_map, attached_map)
        w == SyncWrites(session, new_status)
        S1 == IF w THEN update_status(S, session.id, new_status, clk + 1) ELSE S
        try == session.claude_session_id = NoText
        S2 == IF try THEN try_capture_claude_id(S1, L, session) ELSE S1
    IN [store |-> S2, clock |-> IF w THEN clk + 1 ELSE clk, wrote |-> w,
        captured |-> try /\ find_session_after_time(L, session.working_directory,
                                                    session.created_at) /= NoText]

\* CluxApp.sync_session_status(session, tmux_sessions): no capture of the Claude id
tui_sync_session_status(S, clk, session, tmux_sessions) ==
    LET new_status == DerivedStatus(session.tmux_session, tmux_sessions, tmux_sessions)
        w == SyncWrites(session, new_status)
    IN [store |-> IF w THEN update_status(S, session.id, new_status, clk + 1) ELSE S,
        clock |-> IF w THEN clk + 1 ELSE clk, wrote |-> w]

\* sessions = [sync_session_status(db, s) for s in sessions]
RECURSIVE SyncAll(_, _, _, _, _)
SyncAll(sessions, S, clk, L, m) ==
    IF sessions = <<>> THEN [store |-> S, clock |-> clk, wrote |-> {}]
    ELSE LET s == Head(sessions)
             r == sync_session_status(S, clk, L, s, m, m)
             rest == SyncAll(Tail(sessions), r.store, r.clock, L, m)
         IN [rest EXCEPT !.wrote = @ \cup (IF r.wrote THEN {s.id} ELSE {})]

\* for session in self.sessions: self.sync_session_status(session, tmux_sessions)
RECURSIVE TuiSyncAll(_, _, _, _)
TuiSyncAll(sessions, S, clk, m) ==
    IF sessions = <<>> THEN [store |-> S, clock |-> clk, wrote |-> {}]
    ELSE LET s == Head(sessions)
             r == tui_sync_session_status(S, clk, s, m)
             rest == TuiSyncAll(Tail(sessions), r.store, r.clock, m)
         IN [rest EXCEPT !.wrote = @ \cup (IF r.wrote THEN {s.id} ELSE {})]

-----------------------------------------------------------------------------
(* The state after construction *)

\* a CLI invocation that is not running; err is what the one that ran last ended
\* with: the exception it raised, the message of its sys.exit(1), or the message
\* it had tmux display
IdleProc == [pc |-> "idle", cmd |-> "", name |-> "", cwd |-> "", tmux_name |-> "",
             sid |-> 0, launch_time |-> 0, err |-> "", child |-> "", overdue |-> FALSE,
             todo |-> <<>>, exists_map |-> <<>>, tmux_sessions |-> <<>>,
             tracked_tmux |-> {}]

Ended(err) == [IdleProc EXCEPT !.err = err]

\* cleaned is the number in the notice "Cleaned up N orphaned tmux session(s)"
ClosedTui == [open |-> FALSE, cwd |-> "", show_archived |-> FALSE, sessions |-> {},
              cleaned |-> 0]

Init ==
    /\ store = {}
    /\ tmuxSessions = <<>>
    /\ tmuxInstalled \in BOOLEAN
    /\ logs = {}
    /\ clock = 0
    /\ nextId = 1
    /\ procs = [p \in Procs |-> IdleProc]
    /\ tui = ClosedTui

Map == get_sessions_map(tmuxSessions, tmuxInstalled)

\* procs blocked in tmux attach-session -t name return when the session ends
Release(P, name) ==
    [p \in Procs |-> IF P[p].pc = "attached" /\ P[p].tmux_name = name
                        THEN [P[p] EXCEPT !.pc = "post"] ELSE P[p]]

\* tmux attach-session -t name: one more client on the session
AddClient(T, name) == [T EXCEPT ![name] = @ + 1]

-----------------------------------------------------------------------------
(* cli.new_cmd, in the steps between which other invocations can run *)

\* lines 99-117: validate, look the session up, derive the tmux name
NewStart(p, name, cwd) ==
    /\ procs[p].pc = "idle"
    /\ IF ~validate_session_name(name)
          THEN procs' = [procs EXCEPT ![p] = Ended("invalid_name")]
       ELSE IF get_session(store, name, cwd) /= {}
          THEN procs' = [procs EXCEPT ![p] = Ended("exists")]
          ELSE procs' = [procs EXCEPT ![p] = [IdleProc EXCEPT !.pc = "new_kill",
                                !.cmd = "new", !.name = name, !.cwd = cwd,
                                !.tmux_name = make_tmux_name(name, cwd)]]
    /\ UNCHANGED <<store, tmuxSessions, tmuxInstalled, logs, clock, nextId, tui>>

\* lines 119-122: kill a tmux session that already has the name
NewKill(p) ==
    /\ procs[p].pc = "new_kill"
    /\ LET t == procs[p].tmux_name
           hit == session_exists(t, Map)
       IN /\ tmuxSessions' = IF hit THEN kill_session(tmuxSessions, t) ELSE tmuxSessions
          /\ procs' = [(IF hit THEN Release(procs, t) ELSE procs) EXCEPT ![p].pc = "new_insert"]
    /\ UNCHANGED <<store, tmuxInstalled, logs, clock, nextId, tui>>

\* lines 124-126: db.create_session; an IntegrityError ends the command
NewInsert(p) ==
    /\ procs[p].pc = "new_insert"
    /\ LET me == procs[p] IN
       IF UniqueViolated(store, me.name, me.cwd)
          THEN /\ procs' = [procs EXCEPT ![p] = Ended("DatabaseError")]
               /\ UNCHANGED <<store, clock, nextId>>
          ELSE /\ nextId <= MaxIds
               /\ clock < MaxClock
               /\ store' = create_session(store, nextId, me.name, me.cwd, me.tmux_name, clock + 1)
               /\ clock' = clock + 1
               /\ nextId' = nextId + 1
               /\ procs' = [procs EXCEPT ![p].pc = "new_tmux", ![p].sid = nextId]
    /\ UNCHANGED <<tmuxSessions, tmuxInstalled, logs, tui>>

\* lines 128-144: tmux.create_session; on False the row is deleted; then send_keys,
\* update_status(active) and attach_session, which blocks
NewTmux(p) ==
    /\ procs[p].pc = "new_tmux"
    /\ LET me == procs[p] IN
       IF require_tmux(tmuxInstalled) /= NoText
          THEN \* require_tmux() raises TmuxNotInstalled out of new_cmd
               /\ procs' = [procs EXCEPT ![p] = Ended("TmuxNotInstalled")]
               /\ UNCHANGED <<store, tmuxSessions, clock>>
          ELSE \E created \in IF me.tmux_name \in DOMAIN tmuxSessions THEN {FALSE} ELSE BOOLEAN :
               IF ~created
                  THEN /\ store' = delete_session(store, me.sid)
                       /\ procs' = [procs EXCEPT ![p] = Ended("create_failed")]
                       /\ UNCHANGED <<tmuxSessions, clock>>
                  ELSE /\ clock < MaxClock
                       /\ store' = update_status(store, me.sid, "active", clock + 1)
                       /\ clock' = clock + 1
                       /\ tmuxSessions' = AddClient(tmux_new_session(tmuxSessions, me.tmux_name),
                                                    me.tmux_name)
                       /\ procs' = [procs EXCEPT ![p].pc = "attached", ![p].launch_time = clock]
    /\ UNCHANGED <<tmuxInstalled, logs, nextId, tui>>

\* lines 146-155, after attach_session returned: capture the Claude id, re-read
\* the row, reconcile
NewPost(p) ==
    /\ procs[p].pc = "post"
    /\ procs[p].cmd = "new"
    /\ LET me == procs[p]
           claude_session_id == find_session_after_time(logs, me.cwd, me.launch_time)
           S1 == IF claude_session_id /= NoText
                    THEN update_claude_session_id(store, me.sid, claude_session_id) ELSE store
           found == get_session_by_id(S1, me.sid)
       IN IF found = {}
             THEN /\ store' = S1
                  /\ UNCHANGED clock
             ELSE LET session == CHOOSE r \in found : TRUE
                      r == sync_session_status(S1, clock, logs, session, Map, Map)
                  IN /\ r.clock <= MaxClock
                     /\ store' = r.store
                     /\ clock' = r.clock
    /\ procs' = [procs EXCEPT ![p] = IdleProc]
    /\ UNCHANGED <<tmuxSessions, tmuxInstalled, logs, nextId, tui>>

-----------------------------------------------------------------------------
(* cli.attach_cmd: up to the blocking attach_session, and after it *)

\* lines 224-275
AttachStart(p, name, cwd) ==
    /\ procs[p].pc = "idle"
    /\ LET found == get_session(store, name, cwd) IN
       IF found = {}
          THEN /\ procs' = [procs EXCEPT ![p] = Ended("not_found")]
               /\ UNCHANGED <<store, tmuxSessions, clock>>
          ELSE
       LET session0 == CHOOSE r \in found : TRUE IN
       IF session0.status = "archived"
          THEN /\ procs' = [procs EXCEPT ![p] = Ended("archived")]
               /\ UNCHANGED <<store, tmuxSessions, clock>>
          ELSE
       LET r == sync_session_status(store, clock, logs, session0, Map, Map)
           session == CHOOSE s \in get_session_by_id(r.store, session0.id) : TRUE
           wrote == IF r.wrote THEN {session.id} ELSE {}
           tmux_name == IF session.tmux_session /= NoText THEN session.tmux_session
                        ELSE make_tmux_name(name, session.working_directory)
           me == [IdleProc EXCEPT !.pc = "attached", !.cmd = "attach", !.name = name,
                     !.cwd = cwd, !.tmux_name = tmux_name, !.sid = session.id,
                     !.launch_time = r.clock]
       IN IF session.tmux_session /= NoText /\ session_exists(session.tmux_session, Map)
             THEN \* attach to the existing tmux session
                  /\ r.clock < MaxClock
                  /\ tmuxSessions[tmux_name] < MaxClients
                  /\ store' = update_status(r.store, session.id, "active", r.clock + 1)
                  /\ clock' = r.clock + 1
                  /\ tmuxSessions' = AddClient(tmuxSessions, tmux_name)
                  /\ procs' = [procs EXCEPT ![p] = me]
             ELSE IF require_tmux(tmuxInstalled) /= NoText
             THEN \* require_tmux() raises TmuxNotInstalled out of attach_cmd
                  /\ r.clock <= MaxClock
                  /\ store' = r.store
                  /\ clock' = r.clock
                  /\ procs' = [procs EXCEPT ![p] = Ended("TmuxNotInstalled")]
                  /\ UNCHANGED tmuxSessions
             ELSE \E created \in IF tmux_name \in DOMAIN tmuxSessions THEN {FALSE} ELSE BOOLEAN :
                  IF ~created
                     THEN /\ r.clock <= MaxClock
                          /\ store' = r.store
                          /\ clock' = r.clock
                          /\ procs' = [procs EXCEPT ![p] = Ended("create_failed")]
                          /\ UNCHANGED tmuxSessions
                     ELSE /\ r.clock < MaxClock
                          /\ store' = update_status(r.store, session.id, "active", r.clock + 1)
                          /\ clock' = r.clock + 1
                          /\ tmuxSessions' = AddClient(tmux_new_session(tmuxSessions, tmux_name),
                                                       tmux_name)
                          /\ procs' = [procs EXCEPT ![p] = me]
    /\ UNCHANGED <<tmuxInstalled, logs, nextId, tui>>

\* lines 279-284 for the session line 277 read: first the rows after the capture
\* of lines 280-282, then what the sync_session_status of line 284 does, which is
\* handed the session as line 277 read it
attach_post(S, clk, L, session, cwd, launch_time, m) ==
    LET claude_session_id == find_session_after_time(L, cwd, launch_time)
        S1 == IF session.claude_session_id = NoText /\ claude_session_id /= NoText
                 THEN update_claude_session_id(S, session.id, claude_session_id)
                 ELSE S
    IN [before_sync |-> S1, sync |-> sync_session_status(S1, clk, L, session, m, m)]

\* lines 277-284, after attach_session returned
AttachPost(p) ==
    /\ procs[p].pc = "post"
    /\ procs[p].cmd = "attach"
    /\ LET me == procs[p]
           found == get_session_by_id(store, me.sid)
       IN IF found = {}
             THEN /\ UNCHANGED <<store, clock>>
             ELSE LET session == CHOOSE r \in found : TRUE
                      r == attach_post(store, clock, logs, session, me.cwd, me.launch_time,
                                       Map).sync
                  IN /\ r.clock <= MaxClock
                     /\ store' = r.store
                     /\ clock' = r.clock
    /\ procs' = [procs EXCEPT ![p] = IdleProc]
    /\ UNCHANGED <<tmuxSessions, tmuxInstalled, logs, nextId, tui>>

-----------------------------------------------------------------------------
(* The CLI commands that run to their end without blocking *)

\* cli.list_cmd; cwd = NoText without --here
ListCmd(include_all, cwd) ==
    /\ LET sessions == list_sessions(store, include_all, cwd)
           r == SyncAll(sessions, store, clock, logs, Map)
       IN /\ r.clock <= MaxClock
          /\ store' = r.store
          /\ clock' = r.clock
    /\ UNCHANGED <<tmuxSessions, tmuxInstalled, logs, nextId, procs, tui>>

\* cli.status_cmd
StatusCmd(cwd) ==
    /\ LET sessions == list_sessions(store, FALSE, cwd)
           r == SyncAll(sessions, store, clock, logs, Map)
       IN /\ r.clock <= MaxClock
          /\ store' = r.store
          /\ clock' = r.clock
    /\ UNCHANGED <<tmuxSessions, tmuxInstalled, logs, nextId, procs, tui>>

\* list_cmd step by step. todo holds the Session objects that line 166 read and
\* line 169 has not reconciled yet; exists_map is what the tmux.list_sessions
\* call inside tmux.session_exists (cli.py:46) returned for the first of them.

\* the invocation after the reconcile of the first session of todo
SyncAdvance(P, p) ==
    IF Len(P[p].todo) <= 1 THEN [P EXCEPT ![p] = Ended("")]
    ELSE [P EXCEPT ![p].pc = "sync_exists", ![p].todo = Tail(@), ![p].exists_map = <<>>]

\* lines 164-166: the rows are read
ListBegin(p, include_all, cwd) ==
    /\ procs[p].pc = "idle"
    /\ LET sessions == list_sessions(store, include_all, cwd)
       IN procs' = IF sessions = <<>> THEN [procs EXCEPT ![p] = Ended("No sessions")]
                   ELSE [procs EXCEPT ![p] = [IdleProc EXCEPT !.pc = "sync_exists",
                                                               !.cmd = "list",
                                                               !.todo = sessions]]
    /\ UNCHANGED <<store, tmuxSessions, tmuxInstalled, logs, clock, nextId, tui>>

\* sync_session_status up to tmux.session_exists (cli.py:45-46): when the session
\* has no tmux name or tmux does not list it, the rest of the function follows
\* at once; when tmux lists it, tmux.is_attached is still to be called
SyncExists(p) ==
    /\ procs[p].pc = "sync_exists"
    /\ LET session == Head(procs[p].todo)
       IN IF session.tmux_session /= NoText /\ session_exists(session.tmux_session, Map)
             THEN /\ procs' = [procs EXCEPT ![p].pc = "sync_attached", ![p].exists_map = Map]
                  /\ UNCHANGED <<store, clock>>
             ELSE LET r == sync_session_status(store, clock, logs, session, Map, Map)
                  IN /\ r.clock <= MaxClock
                     /\ store' = r.store
                     /\ clock' = r.clock
                     /\ procs' = SyncAdvance(procs, p)
    /\ UNCHANGED <<tmuxSessions, tmuxInstalled, logs, nextId, tui>>

\* sync_session_status from tmux.is_attached on (cli.py:47-62), which lists the
\* tmux sessions again
SyncAttached(p) ==
    /\ procs[p].pc = "sync_attached"
    /\ LET session == Head(procs[p].todo)
           r == sync_session_status(store, clock, logs, session, procs[p].exists_map, Map)
       IN /\ r.clock <= MaxClock
          /\ store' = r.store
          /\ clock' = r.clock
          /\ procs' = SyncAdvance(procs, p)
    /\ UNCHANGED <<tmuxSessions, tmuxInstalled, logs, nextId, tui>>

\* the tmux sessions and the blocked invocations after
\* "if session.tmux_session and tmux.session_exists(...): tmux.kill_session(...)"
KillIfRunning(session) ==
    session.tmux_session /= NoText /\ session_exists(session.tmux_session, Map)

TmuxAfterKill(session) ==
    IF KillIfRunning(session) THEN kill_session(tmuxSessions, session.tmux_session)
                              ELSE tmuxSessions

ProcsAfterKill(session) ==
    IF KillIfRunning(session) THEN Release(procs, session.tmux_session) ELSE procs

\* cli.archive_cmd
ArchiveCmd(name, cwd) ==
    /\ \E session \in get_session(store, name, cwd) :
          /\ clock < MaxClock
          /\ tmuxSessions' = TmuxAfterKill(session)
          /\ procs' = ProcsAfterKill(session)
          /\ store' = update_status(store, session.id, "archived", clock + 1)
          /\ clock' = clock + 1
    /\ UNCHANGED <<tmuxInstalled, logs, nextId, tui>>

\* cli.restore_cmd
RestoreCmd(name, cwd) ==
    /\ \E session \in get_session(store, name, cwd) :
          IF session.status /= "archived"
             THEN /\ UNCHANGED store
             ELSE /\ store' = restore_session(store, session.id)
    /\ UNCHANGED <<tmuxSessions, tmuxInstalled, logs, clock, nextId, procs, tui>>

\* cli.kill_cmd
KillCmd(name, cwd) ==
    /\ \E session \in get_session(store, name, cwd) :
          IF ~KillIfRunning(session)
             THEN /\ UNCHANGED <<store, tmuxSessions, clock, procs>>
             ELSE /\ clock < MaxClock
                  /\ LET S1 == IF session.claude_session_id = NoText
                                  THEN try_capture_claude_id(store, logs, session) ELSE store
                     IN store' = update_status(S1, session.id, "idle", clock + 1)
                  /\ clock' = clock + 1
                  /\ tmuxSessions' = TmuxAfterKill(session)
                  /\ procs' = ProcsAfterKill(session)
    /\ UNCHANGED <<tmuxInstalled, logs, nextId, tui>>

\* cli.close_cmd, lines 378-392, for the session the lookup gave
Close(session) ==
    /\ clock < MaxClock
    /\ LET S1 == IF session.claude_session_id = NoText
                    THEN try_capture_claude_id(store, logs, session) ELSE store
       IN store' = update_status(S1, session.id, "archived", clock + 1)
    /\ clock' = clock + 1
    /\ tmuxSessions' = TmuxAfterKill(session)
    /\ procs' = ProcsAfterKill(session)
    /\ UNCHANGED <<tmuxInstalled, logs, nextId, tui>>

\* clux close NAME
CloseCmd(name, cwd) == \E session \in get_session(store, name, cwd) : Close(session)

\* clux close --tmux-name T, from the tmux menu of a live session
CloseByTmuxName(tmux_name) ==
    /\ HasPrefix(tmux_name)
    /\ \E session \in get_session_by_tmux_name(store, tmux_name) : Close(session)

\* cli.delete_cmd, confirmed or forced
DeleteCmd(name, cwd) ==
    /\ \E session \in get_session(store, name, cwd) :
          /\ tmuxSessions' = TmuxAfterKill(session)
          /\ procs' = ProcsAfterKill(session)
          /\ store' = delete_session(store, session.id)
    /\ UNCHANGED <<tmuxInstalled, logs, clock, nextId, tui>>

-----------------------------------------------------------------------------
(* prompt.run_prompt, which cli.prompt_cmd calls *)

\* what the claude run reports as its session id: nothing, or one of these
PromptResults == {"u1", "u2"}

\* a variant of prompt_update that stores whatever the run reported
prompt_update_Always(S, session, result_session_id, now) ==
    update_claude_session_id(update_activity(S, session.id, now), session.id,
                             result_session_id)

\* step 5 of run_prompt (lines 152-155)
prompt_update(S, session, result_session_id, now) ==
    LET S1 == update_activity(S, session.id, now)
    IN IF result_session_id /= NoText /\ result_session_id /= session.claude_session_id
          THEN update_claude_session_id(S1, session.id, result_session_id)
          ELSE S1

\* clux prompt name message: a ValueError ends it when the session has no Claude
\* session id; else it kills the tmux session if that is running and runs claude,
\* which reports result_session_id; when the run times out nothing is stored
PromptCmd(name, cwd, result_session_id, timed_out) ==
    /\ \E session \in get_session(store, name, cwd) :
          IF session.claude_session_id = NoText
             THEN /\ UNCHANGED <<store, tmuxSessions, clock, procs>>
             ELSE /\ tmuxSessions' = TmuxAfterKill(session)
                  /\ procs' = ProcsAfterKill(session)
                  /\ IF timed_out
                        THEN /\ UNCHANGED <<store, clock>>
                        ELSE /\ clock < MaxClock
                             /\ store' = prompt_update(store, session, result_session_id,
                                                       clock + 1)
                             /\ clock' = clock + 1
    /\ UNCHANGED <<tmuxInstalled, logs, nextId, tui>>

\* run_prompt step by step. child is the claude process of subprocess.Popen:
\* "streaming" while it runs with its stdout open, "silent" once it has closed
\* its stdout and still runs, "exited" after it has ended. overdue says that
\* timeout seconds have passed since Popen.

\* steps 1 to 3 and Popen (lines 50-93)
PromptStart(p, name, cwd) ==
    /\ procs[p].pc = "idle"
    /\ clock < MaxClock
    /\ IF get_session(store, name, cwd) = {}
          THEN /\ procs' = [procs EXCEPT ![p] = Ended("not found")]
               /\ UNCHANGED tmuxSessions
          ELSE \E session \in get_session(store, name, cwd) :
                  IF session.claude_session_id = NoText
                     THEN /\ procs' = [procs EXCEPT ![p] = Ended("no claude session ID")]
                          /\ UNCHANGED tmuxSessions
                     ELSE /\ tmuxSessions' = TmuxAfterKill(session)
                          /\ procs' = [ProcsAfterKill(session) EXCEPT ![p] =
                                          [IdleProc EXCEPT !.pc = "reading", !.cmd = "prompt",
                                                           !.name = name, !.cwd = cwd,
                                                           !.sid = session.id,
                                                           !.child = "streaming"]]
    /\ UNCHANGED <<store, tmuxInstalled, logs, clock, nextId, tui>>

\* the child closes its stdout and goes on running
ChildCloses(p) ==
    /\ procs[p].child = "streaming"
    /\ procs' = [procs EXCEPT ![p].child = "silent"]
    /\ UNCHANGED <<store, tmuxSessions, tmuxInstalled, logs, clock, nextId, tui>>

\* the child ends, which closes its stdout
ChildExits(p) ==
    /\ procs[p].child \in {"streaming", "silent"}
    /\ procs' = [procs EXCEPT ![p].child = "exited"]
    /\ UNCHANGED <<store, tmuxSessions, tmuxInstalled, logs, clock, nextId, tui>>

\* timeout seconds have passed since Popen
TimeoutElapses(p) ==
    /\ procs[p].pc \in {"reading", "waiting"}
    /\ ~procs[p].overdue
    /\ procs' = [procs EXCEPT ![p].overdue = TRUE]
    /\ UNCHANGED <<store, tmuxSessions, tmuxInstalled, logs, clock, nextId, tui>>

\* `for line in proc.stdout` (lines 95-130) ends when the child's stdout is at
\* its end; until then it blocks in the read, and no timeout is set on it
PromptEof(p) ==
    /\ procs[p].pc = "reading"
    /\ procs[p].child \in {"silent", "exited"}
    /\ procs' = [procs EXCEPT ![p].pc = "waiting"]
    /\ UNCHANGED <<store, tmuxSessions, tmuxInstalled, logs, clock, nextId, tui>>

\* proc.wait(timeout=timeout) (line 132) returns because the child has ended;
\* then step 5, with the Session object of step 1
PromptWaitReturns(p, result_session_id) ==
    /\ procs[p].pc = "waiting"
    /\ procs[p].child = "exited"
    /\ clock < MaxClock
    /\ LET rows == {r \in store : r.id = procs[p].sid}
       IN store' = IF rows = {} THEN store
                   ELSE prompt_update(store, CHOOSE r \in rows : TRUE, result_session_id,
                                      clock + 1)
    /\ clock' = clock + 1
    /\ procs' = [procs EXCEPT ![p] = Ended("")]
    /\ UNCHANGED <<tmuxSessions, tmuxInstalled, logs, nextId, tui>>

\* proc.wait(timeout=timeout) raises TimeoutExpired: the child, whose stdout is
\* closed, still runs timeout seconds after the wait began; proc.kill(), and the
\* result has exit_code 124 and error "Timeout expired" (lines 137-146)
PromptTimeout(p) ==
    /\ procs[p].pc = "waiting"
    /\ procs[p].child = "silent"
    /\ procs' = [procs EXCEPT ![p] = Ended("Timeout expired")]
    /\ UNCHANGED <<store, tmuxSessions, tmuxInstalled, logs, clock, nextId, tui>>

-----------------------------------------------------------------------------
(* cli.next_cmd *)

\* lines 481-486: the position of the current session in the list, from 1; 0 is
\* current_idx = None
current_idx(sessions, session) ==
    IF \E i \in DOMAIN sessions : sessions[i].id = session.id
       THEN CHOOSE i \in DOMAIN sessions :
               /\ sessions[i].id = session.id
               /\ \A j \in DOMAIN sessions : sessions[j].id = session.id => i <= j
       ELSE 0

\* a variant of next_idx that does not wrap around
next_idx_NoWrap(idx, sessions) == IF idx = Len(sessions) THEN idx ELSE idx + 1

\* line 493, next_idx = (current_idx + 1) % len(sessions), on positions from 1
next_idx(idx, sessions) == (idx % Len(sessions)) + 1

\* lines 497-499
next_tmux_name(next_session) ==
    IF next_session.tmux_session /= NoText THEN next_session.tmux_session
    ELSE make_tmux_name(next_session.name, next_session.working_directory)

\* tmux.switch_client(name): the client that ran the command moves from the
\* session it is on to the named one; it fails when there is no such client
switch_client_ok(T, from, to) == from \in DOMAIN T /\ to \in DOMAIN T /\ T[from] >= 1

switch_client(T, from, to) ==
    IF switch_client_ok(T, from, to) /\ from /= to
       THEN [T EXCEPT ![from] = @ - 1, ![to] = @ + 1] ELSE T

\* Config.yolo_mode, at its default
YoloMode == TRUE

\* Config.get_claude_command(safe) without a session id: the words of the command
get_claude_command(yolo_mode, safe) ==
    IF yolo_mode /\ ~safe THEN <<"claude", "--dangerously-skip-permissions">>
    ELSE <<"claude">>

\* a variant of next_claude_cmd that never resumes
next_claude_cmd_NoResume(next_session) == get_claude_command(YoloMode, FALSE)

\* lines 508-515: the command next_cmd types into the tmux session it created
next_claude_cmd(next_session) ==
    IF next_session.claude_session_id /= NoText
       THEN get_claude_command(YoloMode, FALSE) \o <<"--resume", next_session.claude_session_id>>
       ELSE get_claude_command(YoloMode, FALSE)

\* next_cmd from line 474 on, for the row the lookup by tmux name gave: the
\* message it has tmux display (or the exception that ends it), the session it
\* switched to, the words it sent with send_keys, and the store, the clock and
\* the tmux sessions after it; created is what tmux.create_session returns if it
\* is called
next_cmd(S, clk, T, installed, tmux_name, session, created) ==
    LET sessions == list_sessions(S, FALSE, session.working_directory)
        idx == current_idx(sessions, session)
        same == [store |-> S, clock |-> clk, tmux |-> T, msg |-> "", target |-> 0,
                 keys |-> <<>>]
    IN IF Len(sessions) <= 1
          THEN [same EXCEPT !.msg = "No other sessions in this project"]
       ELSE IF idx = 0
          THEN [same EXCEPT !.msg = "Current session not found in list"]
       ELSE
       LET next_session == sessions[next_idx(idx, sessions)]
           next_tmux == next_tmux_name(next_session)
           live == session_exists(next_tmux, get_sessions_map(T, installed))
           S1 == IF live THEN S ELSE update_status(S, next_session.id, "active", clk + 1)
           T1 == IF live THEN T ELSE tmux_new_session(T, next_tmux)
       IN IF ~live /\ require_tmux(installed) /= NoText
             THEN [same EXCEPT !.msg = "TmuxNotInstalled"]
          ELSE IF ~live /\ ~created
             THEN [same EXCEPT !.msg = "Failed to create tmux session"]
          ELSE [store |-> S1, clock |-> IF live THEN clk ELSE clk + 1,
                tmux |-> switch_client(T1, tmux_name, next_tmux),
                msg |-> IF switch_client_ok(T1, tmux_name, next_tmux)
                           THEN "Switched to" ELSE "Failed to switch to",
                target |-> next_session.id,
                keys |-> IF live THEN <<>> ELSE next_claude_cmd(next_session)]

\* clux next --tmux-name T, from the menu of the live tmux session T
NextCmd(p, tmux_name) ==
    /\ procs[p].pc = "idle"
    /\ IF ~HasPrefix(tmux_name)
          THEN /\ procs' = [procs EXCEPT ![p] = Ended("Not a clux session")]
               /\ UNCHANGED <<store, clock, tmuxSessions>>
       ELSE IF get_session_by_tmux_name(store, tmux_name) = {}
          THEN /\ procs' = [procs EXCEPT ![p] = Ended("Session not found")]
               /\ UNCHANGED <<store, clock, tmuxSessions>>
       ELSE \E session \in get_session_by_tmux_name(store, tmux_name), created \in BOOLEAN :
               LET r == next_cmd(store, clock, tmuxSessions, tmuxInstalled, tmux_name,
                                 session, created)
               IN /\ r.clock <= MaxClock
                  /\ \A n \in DOMAIN r.tmux : r.tmux[n] <= MaxClients
                  /\ store' = r.store
                  /\ clock' = r.clock
                  /\ tmuxSessions' = r.tmux
                  /\ procs' = [procs EXCEPT ![p] = [Ended(r.msg) EXCEPT !.sid = r.target]]
    /\ UNCHANGED <<tmuxInstalled, logs, nextId, tui>>

-----------------------------------------------------------------------------
(* cli.new_here_cmd *)

\* clux new-here name --tmux-name T, from the menu of the tmux session T: a new
\* session in the directory of T's session, to which the client is switched
NewHereCmd(p, name, tmux_name) ==
    /\ procs[p].pc = "idle"
    /\ IF ~HasPrefix(tmux_name)
          THEN /\ procs' = [procs EXCEPT ![p] = Ended("Not a clux session")]
               /\ UNCHANGED <<store, clock, nextId, tmuxSessions>>
       ELSE IF get_session_by_tmux_name(store, tmux_name) = {}
          THEN /\ procs' = [procs EXCEPT ![p] = Ended("Session not found")]
               /\ UNCHANGED <<store, clock, nextId, tmuxSessions>>
       ELSE \E session \in get_session_by_tmux_name(store, tmux_name) :
          LET working_dir == session.working_directory
              new_tmux_name == make_tmux_name(name, working_dir)
              hit == session_exists(new_tmux_name, Map)
              T1 == IF hit THEN kill_session(tmuxSessions, new_tmux_name) ELSE tmuxSessions
              P1 == IF hit THEN Release(procs, new_tmux_name) ELSE procs
              S1 == create_session(store, nextId, name, working_dir, new_tmux_name, clock + 1)
              T2 == tmux_new_session(T1, new_tmux_name)
          IN IF ~validate_session_name(name)
                THEN /\ procs' = [procs EXCEPT ![p] = Ended("Invalid name")]
                     /\ UNCHANGED <<store, clock, nextId, tmuxSessions>>
             ELSE IF get_session(store, name, working_dir) /= {}
                THEN /\ procs' = [procs EXCEPT ![p] = Ended("already exists")]
                     /\ UNCHANGED <<store, clock, nextId, tmuxSessions>>
             ELSE /\ nextId <= MaxIds
                  /\ clock < MaxClock
                  /\ nextId' = nextId + 1
                  /\ IF require_tmux(tmuxInstalled) /= NoText
                        THEN \* require_tmux() raises TmuxNotInstalled out of new_here_cmd
                             /\ store' = S1
                             /\ clock' = clock + 1
                             /\ tmuxSessions' = T1
                             /\ procs' = [P1 EXCEPT ![p] = Ended("TmuxNotInstalled")]
                        ELSE \E created \in BOOLEAN :
                             IF ~created
                                THEN /\ store' = delete_session(S1, nextId)
                                     /\ clock' = clock + 1
                                     /\ tmuxSessions' = T1
                                     /\ procs' = [P1 EXCEPT ![p] =
                                                     Ended("Failed to create tmux session")]
                                ELSE /\ clock + 1 < MaxClock
                                     /\ \A n \in DOMAIN T2 :
                                           switch_client(T2, tmux_name, new_tmux_name)[n]
                                              <= MaxClients
                                     /\ store' = update_status(S1, nextId, "active", clock + 2)
                                     /\ clock' = clock + 2
                                     /\ tmuxSessions' = switch_client(T2, tmux_name, new_tmux_name)
                                     /\ procs' = [P1 EXCEPT ![p] =
                                           Ended(IF switch_client_ok(T2, tmux_name, new_tmux_name)
                                                    THEN "New session"
                                                    ELSE "Created but failed to switch")]
    /\ UNCHANGED <<tmuxInstalled, logs, tui>>

-----------------------------------------------------------------------------
(* tui/app.py: CluxApp *)

\* the tmux session name CluxApp.create_session and action_attach derive
tui_tmux_name(name) == "clux-" \o name

\* a variant of tracked_tmux built from list_sessions() without include_archived
TrackedTmux_NotArchived(S) ==
    {s.tmux_session : s \in {r \in S : r.status /= "archived" /\ r.tmux_session /= ""}}

\* tracked_tmux of cleanup_orphaned_tmux
TrackedTmux(S) ==
    {s.tmux_session : s \in {r \in ListRows(S, TRUE, NoText) : r.tmux_session /= NoText}}

\* a variant of Orphans that does not look at the prefix
Orphans_AnyName(S, tmux_sessions) ==
    {n \in DOMAIN tmux_sessions : n \notin TrackedTmux(S)}

\* the names cleanup_orphaned_tmux kills, given the map it fetched
Orphans(S, tmux_sessions) ==
    {n \in DOMAIN tmux_sessions : HasPrefix(n) /\ n \notin TrackedTmux(S)}

\* tmux.cleanup_orphaned_sessions: the names of the live sessions that carry the
\* prefix; it kills none of them, and nothing calls it
cleanup_orphaned_sessions(tmux_sessions) == {n \in DOMAIN tmux_sessions : HasPrefix(n)}

\* a variant of the kill loop that stops after its first kill
KillAll_First(T, names) ==
    IF names = {} THEN T
    ELSE LET first == CHOOSE n \in names : TRUE IN [n \in DOMAIN T \ {first} |-> T[n]]

\* the kill loop of cleanup_orphaned_tmux, and the single kill of create_session
KillAll(T, names) == [n \in DOMAIN T \ names |-> T[n]]

ReleaseAll(P, names) ==
    [p \in Procs |-> IF P[p].pc = "attached" /\ P[p].tmux_name \in names
                        THEN [P[p] EXCEPT !.pc = "post"] ELSE P[p]]

\* the fields of a Session object of self.sessions that the actions of the TUI
\* read afterwards
Shown(session, status) ==
    [id |-> session.id, name |-> session.name, tmux_session |-> session.tmux_session,
     status |-> status]

\* CluxApp.refresh_sessions: list, fetch the tmux map once, reconcile each; the
\* Session objects it keeps carry the reconciled status
Refresh(S, clk, T, show_archived) ==
    LET sessions == list_sessions(S, show_archived, NoText)
        m == get_sessions_map(T, tmuxInstalled)
        r == TuiSyncAll(sessions, S, clk, m)
    IN [store |-> r.store, clock |-> r.clock,
        sessions |-> {Shown(sessions[i],
                            IF sessions[i].id \in r.wrote
                               THEN DerivedStatus(sessions[i].tmux_session, m, m)
                               ELSE sessions[i].status) : i \in DOMAIN sessions}]

\* CluxApp.cleanup_orphaned_tmux: it reads the tmux map and the rows, kills the
\* orphans and writes no row
cleanup_orphaned_tmux(S, T, installed) ==
    LET killed == Orphans(S, get_sessions_map(T, installed))
    IN [store |-> S, tmux |-> KillAll(T, killed), killed |-> killed]

\* CluxApp.on_mount: cleanup_orphaned_tmux, then refresh_sessions
TuiMount(cwd) ==
    /\ ~tui.open
    /\ LET c == cleanup_orphaned_tmux(store, tmuxSessions, tmuxInstalled)
           killed == c.killed
           T1 == c.tmux
           r == Refresh(c.store, clock, T1, FALSE)
       IN /\ r.clock <= MaxClock
          /\ tmuxSessions' = T1
          /\ procs' = ReleaseAll(procs, killed)
          /\ store' = r.store
          /\ clock' = r.clock
          /\ tui' = [open |-> TRUE, cwd |-> cwd, show_archived |-> FALSE, sessions |-> r.sessions,
                     cleaned |-> Cardinality(killed)]
    /\ UNCHANGED <<tmuxInstalled, logs, nextId>>

\* on_mount step by step, run by invocation p: tmux_sessions and tracked_tmux
\* are the local variables of cleanup_orphaned_tmux.

\* line 214: tmux_sessions = tmux.get_sessions_map()
ReapSnapshot(p, cwd) ==
    /\ ~tui.open
    /\ procs[p].pc = "idle"
    /\ procs' = [procs EXCEPT ![p] = [IdleProc EXCEPT !.pc = "reap_read", !.cmd = "tui",
                                                      !.cwd = cwd, !.tmux_sessions = Map]]
    /\ UNCHANGED <<store, tmuxSessions, tmuxInstalled, logs, clock, nextId, tui>>

\* lines 215-218: the rows are read, and tracked_tmux is built from them
ReapRead(p) ==
    /\ procs[p].pc = "reap_read"
    /\ procs' = [procs EXCEPT ![p].pc = "reap_kill", ![p].tracked_tmux = TrackedTmux(store)]
    /\ UNCHANGED <<store, tmuxSessions, tmuxInstalled, logs, clock, nextId, tui>>

\* lines 220-228: the kill loop, by name; then refresh_sessions, and the TUI is up
ReapKill(p) ==
    /\ procs[p].pc = "reap_kill"
    /\ ~tui.open
    /\ LET killed == {n \in DOMAIN procs[p].tmux_sessions :
                        HasPrefix(n) /\ n \notin procs[p].tracked_tmux}
           T1 == KillAll(tmuxSessions, killed)
           r == Refresh(store, clock, T1, FALSE)
       IN /\ r.clock <= MaxClock
          /\ tmuxSessions' = T1
          /\ procs' = [ReleaseAll(procs, killed) EXCEPT ![p] = Ended("")]
          /\ store' = r.store
          /\ clock' = r.clock
          /\ tui' = [open |-> TRUE, cwd |-> procs[p].cwd, show_archived |-> FALSE,
                     sessions |-> r.sessions,
                     cleaned |-> Cardinality(killed \cap DOMAIN tmuxSessions)]
    /\ UNCHANGED <<tmuxInstalled, logs, nextId>>

\* what an action of the open TUI that ends with refresh_sessions leaves behind
TuiRefreshed(S, clk, T, show_archived) ==
    LET r == Refresh(S, clk, T, show_archived)
    IN /\ r.clock <= MaxClock
       /\ store' = r.store
       /\ clock' = r.clock
       /\ tui' = [tui EXCEPT !.show_archived = show_archived, !.sessions = r.sessions]

\* CluxApp.action_refresh
TuiRefresh ==
    /\ tui.open
    /\ TuiRefreshed(store, clock, tmuxSessions, tui.show_archived)
    /\ UNCHANGED <<tmuxSessions, tmuxInstalled, logs, nextId, procs>>

\* CluxApp.action_toggle_archived
TuiToggleArchived ==
    /\ tui.open
    /\ TuiRefreshed(store, clock, tmuxSessions, ~tui.show_archived)
    /\ UNCHANGED <<tmuxSessions, tmuxInstalled, logs, nextId, procs>>

\* CluxApp.action_archive on the selected session
TuiArchive ==
    /\ tui.open
    /\ clock < MaxClock
    /\ \E session \in tui.sessions :
          /\ tmuxSessions' = TmuxAfterKill(session)
          /\ procs' = ProcsAfterKill(session)
          /\ TuiRefreshed(update_status(store, session.id, "archived", clock + 1), clock + 1,
                          TmuxAfterKill(session), tui.show_archived)
    /\ UNCHANGED <<tmuxInstalled, logs, nextId>>

\* CluxApp.action_delete on the selected session, confirmed
TuiDelete ==
    /\ tui.open
    /\ \E session \in tui.sessions :
          /\ tmuxSessions' = TmuxAfterKill(session)
          /\ procs' = ProcsAfterKill(session)
          /\ TuiRefreshed(delete_session(store, session.id), clock,
                          TmuxAfterKill(session), tui.show_archived)
    /\ UNCHANGED <<tmuxInstalled, logs, nextId>>

\* CluxApp.action_unarchive on the selected session
TuiUnarchive ==
    /\ tui.open
    /\ \E session \in tui.sessions :
          IF session.status /= "archived"
             THEN /\ UNCHANGED <<store, clock, tui>>
             ELSE TuiRefreshed(restore_session(store, session.id),
                               clock, tmuxSessions, tui.show_archived)
    /\ UNCHANGED <<tmuxSessions, tmuxInstalled, logs, nextId, procs>>

\* run_tui after app.run() returned ("attach", tmux_name): tmux switch-client or
\* attach-session puts a client on the session, if it is there
TuiClient(T, tmux_name) ==
    IF tmux_name \in DOMAIN T /\ T[tmux_name] < MaxClients THEN AddClient(T, tmux_name) ELSE T

\* CluxApp.create_session(name), then run_tui's attach
TuiCreate(name) ==
    /\ tui.open
    /\ IF ~validate_session_name(name) \/ get_session(store, name, tui.cwd) /= {}
          THEN \* a notice, and the app goes on
               /\ UNCHANGED <<store, tmuxSessions, clock, nextId, procs, tui>>
          ELSE
       LET tmux_name == tui_tmux_name(name)
           hit == session_exists(tmux_name, Map)
           killed == IF hit THEN {tmux_name} ELSE {}
           T1 == KillAll(tmuxSessions, killed)
       IN /\ nextId <= MaxIds
          /\ clock < MaxClock
          /\ nextId' = nextId + 1
          /\ procs' = ReleaseAll(procs, killed)
          /\ IF require_tmux(tmuxInstalled) /= NoText
                THEN \* require_tmux() raises TmuxNotInstalled: the app ends
                     /\ store' = create_session(store, nextId, name, tui.cwd, tmux_name, clock + 1)
                     /\ clock' = clock + 1
                     /\ tmuxSessions' = T1
                     /\ tui' = ClosedTui
                ELSE \E created \in BOOLEAN :
                     IF ~created
                        THEN /\ store' = delete_session(
                                    create_session(store, nextId, name, tui.cwd, tmux_name, clock + 1),
                                    nextId)
                             /\ clock' = clock + 1
                             /\ tmuxSessions' = T1
                             /\ UNCHANGED tui
                        ELSE /\ clock + 1 < MaxClock
                             /\ store' = update_status(
                                    create_session(store, nextId, name, tui.cwd, tmux_name, clock + 1),
                                    nextId, "active", clock + 2)
                             /\ clock' = clock + 2
                             /\ tmuxSessions' = TuiClient(tmux_new_session(T1, tmux_name), tmux_name)
                             /\ tui' = ClosedTui
    /\ UNCHANGED <<tmuxInstalled, logs>>

\* CluxApp.action_attach on the selected session, then run_tui's attach
TuiAttach ==
    /\ tui.open
    /\ \E session \in tui.sessions :
          LET tmux_name == IF session.tmux_session /= NoText THEN session.tmux_session
                           ELSE tui_tmux_name(session.name)
          IN IF session.tmux_session /= NoText /\ session_exists(session.tmux_session, Map)
                THEN /\ clock < MaxClock
                     /\ store' = update_status(store, session.id, "active", clock + 1)
                     /\ clock' = clock + 1
                     /\ tmuxSessions' = TuiClient(tmuxSessions, tmux_name)
                     /\ tui' = ClosedTui
                ELSE IF require_tmux(tmuxInstalled) /= NoText
                THEN \* require_tmux() raises TmuxNotInstalled: the app ends
                     /\ tui' = ClosedTui
                     /\ UNCHANGED <<store, clock, tmuxSessions>>
                ELSE \E created \in IF tmux_name \in DOMAIN tmuxSessions THEN {FALSE} ELSE BOOLEAN :
                     IF ~created
                        THEN /\ UNCHANGED <<store, clock, tmuxSessions, tui>>
                        ELSE /\ clock < MaxClock
                             /\ store' = update_status(store, session.id, "active", clock + 1)
                             /\ clock' = clock + 1
                             /\ tmuxSessions' = TuiClient(tmux_new_session(tmuxSessions, tmux_name),
                                                          tmux_name)
                             /\ tui' = ClosedTui
    /\ UNCHANGED <<tmuxInstalled, logs, nextId, procs>>

\* CluxApp.action_quit
TuiQuit ==
    /\ tui.open
    /\ tui' = ClosedTui
    /\ UNCHANGED <<store, tmuxSessions, tmuxInstalled, logs, clock, nextId, procs>>

-----------------------------------------------------------------------------
(* The world outside clux: the user at the terminal, tmux, Claude *)

\* the client of a blocked attach_session detaches (prefix+d, or the shell exits
\* its client): attach_session returns
UserDetach(p) ==
    /\ procs[p].pc = "attached"
    /\ LET t == procs[p].tmux_name IN
       tmuxSessions' = IF t \in DOMAIN tmuxSessions /\ tmuxSessions[t] > 0
                          THEN [tmuxSessions EXCEPT ![t] = @ - 1] ELSE tmuxSessions
    /\ procs' = [procs EXCEPT ![p].pc = "post"]
    /\ UNCHANGED <<store, tmuxInstalled, logs, clock, nextId, tui>>

\* a tmux session ends by itself (its shell exits)
TmuxExit(name) ==
    /\ name \in DOMAIN tmuxSessions
    /\ tmuxSessions' = kill_session(tmuxSessions, name)
    /\ procs' = Release(procs, name)
    /\ UNCHANGED <<store, tmuxInstalled, logs, clock, nextId, tui>>

\* somebody starts a tmux session outside clux
TmuxForeign(name) ==
    /\ tmuxInstalled
    /\ name \notin DOMAIN tmuxSessions
    /\ tmuxSessions' = tmux_new_session(tmuxSessions, name)
    /\ UNCHANGED <<store, tmuxInstalled, logs, clock, nextId, procs, tui>>

\* a client that no blocked invocation owns (one run_tui attached) detaches
ClientDetach(name) ==
    /\ name \in DOMAIN tmuxSessions
    /\ tmuxSessions[name] >
          Cardinality({p \in Procs : procs[p].pc = "attached" /\ procs[p].tmux_name = name})
    /\ tmuxSessions' = [tmuxSessions EXCEPT ![name] = @ - 1]
    /\ UNCHANGED <<store, tmuxInstalled, logs, clock, nextId, procs, tui>>

\* Claude, running in a project directory, writes its session log
ClaudeWrites(wd, uuid) ==
    /\ clock < MaxClock
    /\ \A e \in logs : e.uuid = uuid => e.wd = wd
    /\ logs' = {e \in logs : e.uuid /= uuid} \cup {[wd |-> wd, uuid |-> uuid, mtime |-> clock + 1]}
    /\ clock' = clock + 1
    /\ UNCHANGED <<store, tmuxSessions, tmuxInstalled, nextId, procs, tui>>

-----------------------------------------------------------------------------
(* The command line: one invocation of new or attach at a time, which the other
   commands and the world interleave with *)
Next ==
    \/ \E p \in MainProcs, name \in Names, cwd \in Dirs : NewStart(p, name, cwd)
    \/ \E p \in MainProcs : NewKill(p)
    \/ \E p \in MainProcs : NewInsert(p)
    \/ \E p \in MainProcs : NewTmux(p)
    \/ \E p \in MainProcs : NewPost(p)
    \/ \E p \in MainProcs, name \in Names, cwd \in Dirs : AttachStart(p, name, cwd)
    \/ \E p \in MainProcs : AttachPost(p)
    \/ \E include_all \in BOOLEAN, cwd \in Dirs \cup {NoText} : ListCmd(include_all, cwd)
    \/ \E cwd \in Dirs : StatusCmd(cwd)
    \/ \E name \in Names, cwd \in Dirs : ArchiveCmd(name, cwd)
    \/ \E name \in Names, cwd \in Dirs : RestoreCmd(name, cwd)
    \/ \E name \in Names, cwd \in Dirs : KillCmd(name, cwd)
    \/ \E name \in Names, cwd \in Dirs : CloseCmd(name, cwd)
    \/ \E tmux_name \in DOMAIN tmuxSessions : CloseByTmuxName(tmux_name)
    \/ \E name \in Names, cwd \in Dirs : DeleteCmd(name, cwd)
    \/ \E p \in MainProcs : UserDetach(p)
    \/ \E name \in DOMAIN tmuxSessions : TmuxExit(name)
    \/ \E name \in OrphanTmux : TmuxForeign(name)
    \/ \E wd \in Dirs, uuid \in Uuids : ClaudeWrites(wd, uuid)

Spec == Init /\ [][Next]_vars

(* The TUI, run after run, and the world *)
NextTui ==
    \/ \E cwd \in Dirs : TuiMount(cwd)
    \/ TuiRefresh
    \/ TuiToggleArchived
    \/ TuiArchive
    \/ TuiDelete
    \/ TuiUnarchive
    \/ \E name \in Names : TuiCreate(name)
    \/ TuiAttach
    \/ TuiQuit
    \/ \E name \in DOMAIN tmuxSessions : ClientDetach(name)
    \/ \E name \in DOMAIN tmuxSessions : TmuxExit(name)
    \/ \E name \in ForeignTmux : TmuxForeign(name)
    \/ \E wd \in Dirs, uuid \in Uuids : ClaudeWrites(wd, uuid)

SpecTui == Init /\ [][NextTui]_vars

(* Two invocations of clux new racing each other, with the commands that change
   the rows in between *)
NextNew ==
    \/ \E p \in Procs, name \in Names, cwd \in Dirs : NewStart(p, name, cwd)
    \/ \E p \in Procs : NewKill(p)
    \/ \E p \in Procs : NewInsert(p)
    \/ \E p \in Procs : NewTmux(p)
    \/ \E p \in Procs : NewPost(p)
    \/ ListCmd(TRUE, NoText)
    \/ \E name \in Names, cwd \in Dirs : ArchiveCmd(name, cwd)
    \/ \E name \in Names, cwd \in Dirs : RestoreCmd(name, cwd)
    \/ \E name \in Names, cwd \in Dirs : DeleteCmd(name, cwd)
    \/ \E p \in Procs : UserDetach(p)
    \/ \E name \in DOMAIN tmuxSessions : TmuxExit(name)

SpecNew == Init /\ [][NextNew]_vars

(* The commands that create a session, given any name *)
Fifty == "aaaaaaaaaaaaaaaaaaaaaaaaaaaaaaaaaaaaaaaaaaaaaaaaaa"

\* names as typed: a short one, one with a hyphen and an underscore, one
\* of 50 characters; the empty one, one of 51 characters, ones with a first or
\* a later character outside the classes, and ones that end in a newline
TypedNames ==
    {"a", "a-_", Fifty, "", Fifty \o "a", "-a", "_", "a!", "a b", "a\n", "\n", "a\nb",
     Fifty \o "\n", "a\n\n"}

ValidateDirs == {"/w1"}

NextValidate ==
    \/ \E p \in MainProcs, name \in TypedNames, cwd \in ValidateDirs : NewStart(p, name, cwd)
    \/ \E p \in MainProcs : NewKill(p)
    \/ \E p \in MainProcs : NewInsert(p)
    \/ \E p \in MainProcs : NewTmux(p)
    \/ \E p \in MainProcs : NewPost(p)
    \/ \E p \in MainProcs : UserDetach(p)
    \/ \E p \in MainProcs, name \in TypedNames,
          tmux_name \in DOMAIN tmuxSessions \cup {r.tmux_session : r \in store} :
             NewHereCmd(p, name, tmux_name)
    \/ \E cwd \in ValidateDirs : TuiMount(cwd)
    \/ \E name \in TypedNames : TuiCreate(name)
    \/ TuiQuit

SpecValidate == Init /\ [][NextValidate]_vars

(* The Claude session logs of several Claude sessions, and the commands that
   look one up *)
LogUuids == {"u1", "u2", "u3"}

LogNames == {"a"}

NextLogs ==
    \/ \E p \in MainProcs, name \in LogNames, cwd \in Dirs : NewStart(p, name, cwd)
    \/ \E p \in MainProcs : NewKill(p)
    \/ \E p \in MainProcs : NewInsert(p)
    \/ \E p \in MainProcs : NewTmux(p)
    \/ \E p \in MainProcs : NewPost(p)
    \/ \E p \in MainProcs : UserDetach(p)
    \/ ListCmd(FALSE, NoText)
    \/ \E wd \in Dirs, uuid \in LogUuids : ClaudeWrites(wd, uuid)

SpecLogs == Init /\ [][NextLogs]_vars

(* clux next over a project that already has its sessions *)
NextNames == {"a", "b", "c"}

NextIds == {1, 2, 3}

NameOfId(i) == IF i = 1 THEN "a" ELSE IF i = 2 THEN "b" ELSE "c"

\* The rows were created and last touched before the behaviour starts, so their
\* stamps lie below the clock's first value 0: row i was created at i - 7 and
\* last touched at order[i] - 5 (never -1, the value NoTime); a and b are in
\* /w1 and c in dirc; the rows in arch were archived when last touched, and the
\* others have the status their tmux session gives them; one live session at
\* most has the client
InitNext ==
    /\ tmuxInstalled = TRUE
    /\ logs = {}
    /\ clock = 0
    /\ nextId = 4
    /\ procs = [p \in Procs |-> IdleProc]
    /\ tui = ClosedTui
    /\ \E order \in Permutations(NextIds), dirc \in Dirs, arch \in SUBSET NextIds,
          live \in SUBSET NextIds, cur \in NextIds :
          LET wd(i) == IF i = 3 THEN dirc ELSE "/w1"
              tn(i) == make_tmux_name(NameOfId(i), wd(i))
          IN /\ live \cap arch = {}
             /\ cur \in live
             /\ tmuxSessions = [n \in {tn(i) : i \in live} |-> IF n = tn(cur) THEN 1 ELSE 0]
             /\ store = {[id |-> i, name |-> NameOfId(i), working_directory |-> wd(i),
                          tmux_session |-> tn(i),
                          claude_session_id |-> NoText,
                          status |-> IF i \in arch THEN "archived"
                                     ELSE IF i = cur THEN "active"
                                     ELSE IF i \in live THEN "detached" ELSE "idle",
                          created_at |-> i - 7, last_activity |-> order[i] - 5,
                          archived_at |-> IF i \in arch THEN order[i] - 5 ELSE NoTime]
                         : i \in NextIds}

NextNext ==
    \/ \E p \in MainProcs,
          tmux_name \in DOMAIN tmuxSessions \cup {r.tmux_session : r \in store} :
             NextCmd(p, tmux_name)
    \/ \E name \in DOMAIN tmuxSessions : TmuxExit(name)

SpecNext == InitNext /\ [][NextNext]_vars

(* The commands that meet a session's Claude session id, over a project that has
   its sessions *)
CaptureDirs == {"/w1"}

\* the tmux session name of session a, which somebody may start outside clux
CaptureForeign == {make_tmux_name("a", "/w1")}

\* sessions a and b of /w1 were created (at -6 and -5) and last touched (at -4
\* and -3) before the behaviour starts; neither has a tmux session now; a may
\* have its Claude session id, whose log was written at -4
InitCapture ==
    /\ tmuxInstalled = TRUE
    /\ tmuxSessions = <<>>
    /\ clock = 0
    /\ nextId = 3
    /\ procs = [p \in Procs |-> IdleProc]
    /\ tui = ClosedTui
    /\ \E has \in BOOLEAN :
          /\ logs = IF has THEN {[wd |-> "/w1", uuid |-> "u1", mtime |-> -4]} ELSE {}
          /\ store = {[id |-> i, name |-> NameOfId(i), working_directory |-> "/w1",
                       tmux_session |-> make_tmux_name(NameOfId(i), "/w1"),
                       claude_session_id |-> IF has /\ i = 1 THEN "u1" ELSE NoText,
                       status |-> "idle", created_at |-> i - 7, last_activity |-> i - 5,
                       archived_at |-> NoTime] : i \in {1, 2}}

NextCapture ==
    \/ \E p \in MainProcs, name \in Names, cwd \in CaptureDirs : AttachStart(p, name, cwd)
    \/ \E p \in MainProcs : AttachPost(p)
    \/ \E p \in MainProcs : UserDetach(p)
    \/ ListCmd(FALSE, NoText)
    \/ \E name \in Names, cwd \in CaptureDirs : KillCmd(name, cwd)
    \/ \E name \in Names, cwd \in CaptureDirs : CloseCmd(name, cwd)
    \/ \E name \in Names, cwd \in CaptureDirs : ArchiveCmd(name, cwd)
    \/ \E name \in Names, cwd \in CaptureDirs : RestoreCmd(name, cwd)
    \/ \E p \in MainProcs, tmux_name \in DOMAIN tmuxSessions : NextCmd(p, tmux_name)
    \/ \E name \in Names, cwd \in CaptureDirs, result_session_id \in PromptResults \cup {NoText},
          timed_out \in BOOLEAN : PromptCmd(name, cwd, result_session_id, timed_out)
    \/ \E wd \in CaptureDirs, uuid \in Uuids : ClaudeWrites(wd, uuid)
    \/ \E name \in DOMAIN tmuxSessions : TmuxExit(name)
    \/ \E name \in CaptureForeign : TmuxForeign(name)

SpecCapture == InitCapture /\ [][NextCapture]_vars

(* The three ways a session is created: clux new, clux new-here and the TUI,
   in either directory *)
NextCreate ==
    \/ \E p \in MainProcs, name \in Names, cwd \in Dirs : NewStart(p, name, cwd)
    \/ \E p \in MainProcs : NewKill(p)
    \/ \E p \in MainProcs : NewInsert(p)
    \/ \E p \in MainProcs : NewTmux(p)
    \/ \E p \in MainProcs : NewPost(p)
    \/ \E p \in MainProcs : UserDetach(p)
    \/ \E p \in MainProcs, name \in Names, tmux_name \in DOMAIN tmuxSessions :
          NewHereCmd(p, name, tmux_name)
    \/ \E cwd \in Dirs : TuiMount(cwd)
    \/ \E name \in Names : TuiCreate(name)
    \/ TuiQuit
    \/ \E name \in DOMAIN tmuxSessions : ClientDetach(name)

SpecCreate == Init /\ [][NextCreate]_vars

(* The TUI starting, step by step, while clux new creates a session whose tmux
   name an orphan may have *)
ReapProcs == {2}

ReapNames == {"a"}

ReapDirs == {"/w1"}

NextReap ==
    \/ \E p \in MainProcs, name \in ReapNames, cwd \in ReapDirs : NewStart(p, name, cwd)
    \/ \E p \in MainProcs : NewKill(p)
    \/ \E p \in MainProcs : NewInsert(p)
    \/ \E p \in MainProcs : NewTmux(p)
    \/ \E p \in MainProcs : NewPost(p)
    \/ \E p \in MainProcs : UserDetach(p)
    \/ \E p \in ReapProcs, cwd \in ReapDirs : ReapSnapshot(p, cwd)
    \/ \E p \in ReapProcs : ReapRead(p)
    \/ \E p \in ReapProcs : ReapKill(p)
    \/ TuiQuit
    \/ \E name \in {make_tmux_name(n, d) : n \in ReapNames, d \in ReapDirs} : TmuxForeign(name)

SpecReap == Init /\ [][NextReap]_vars

(* Two invocations of clux new for the same name in the same directory *)
NextRace ==
    \/ \E p \in Procs, name \in ReapNames, cwd \in ReapDirs : NewStart(p, name, cwd)
    \/ \E p \in Procs : NewKill(p)
    \/ \E p \in Procs : NewInsert(p)
    \/ \E p \in Procs : NewTmux(p)
    \/ \E p \in Procs : NewPost(p)
    \/ \E p \in Procs : UserDetach(p)
    \/ \E name \in ReapNames, cwd \in ReapDirs : DeleteCmd(name, cwd)

SpecRace == Init /\ [][NextRace]_vars

(* clux list, step by step, while tmux sessions end. A tmux session here has a
   client from its start to its end: nothing detaches, and nothing starts a
   session without a client *)
\* sessions a and b of /w1, as in InitCapture; the tmux sessions of those in
\* live are running with a client, and their rows say so
InitSync ==
    /\ tmuxInstalled = TRUE
    /\ logs = {}
    /\ clock = 0
    /\ nextId = 3
    /\ procs = [p \in Procs |-> IdleProc]
    /\ tui = ClosedTui
    /\ \E live \in SUBSET {1, 2} :
          /\ tmuxSessions = [n \in {make_tmux_name(NameOfId(i), "/w1") : i \in live} |-> 1]
          /\ store = {[id |-> i, name |-> NameOfId(i), working_directory |-> "/w1",
                       tmux_session |-> make_tmux_name(NameOfId(i), "/w1"),
                       claude_session_id |-> NoText,
                       status |-> IF i \in live THEN "active" ELSE "idle",
                       created_at |-> i - 7, last_activity |-> i - 5,
                       archived_at |-> NoTime] : i \in {1, 2}}

NextSync ==
    \/ \E p \in MainProcs, include_all \in BOOLEAN, cwd \in CaptureDirs \cup {NoText} :
          ListBegin(p, include_all, cwd)
    \/ \E p \in MainProcs : SyncExists(p)
    \/ \E p \in MainProcs : SyncAttached(p)
    \/ \E name \in DOMAIN tmuxSessions : TmuxExit(name)
    \/ \E wd \in CaptureDirs, uuid \in Uuids : ClaudeWrites(wd, uuid)

SpecSync == InitSync /\ [][NextSync]_vars

(* clux prompt, step by step, over the same project *)
NextPrompt ==
    \/ \E p \in MainProcs, name \in Names, cwd \in CaptureDirs : PromptStart(p, name, cwd)
    \/ \E p \in MainProcs : ChildCloses(p)
    \/ \E p \in MainProcs : ChildExits(p)
    \/ \E p \in MainProcs : TimeoutElapses(p)
    \/ \E p \in MainProcs : PromptEof(p)
    \/ \E p \in MainProcs, result_session_id \in PromptResults \cup {NoText} :
          PromptWaitReturns(p, result_session_id)
    \/ \E p \in MainProcs : PromptTimeout(p)
    \/ \E name \in CaptureForeign : TmuxForeign(name)

SpecPrompt == InitCapture /\ [][NextPrompt]_vars

\* run_prompt goes on whenever it can, and time passes; the child is free to
\* keep running and to keep its stdout open
PromptFairness ==
    \A p \in MainProcs :
        /\ WF_vars(PromptEof(p))
        /\ WF_vars(\E result_session_id \in PromptResults \cup {NoText} :
                      PromptWaitReturns(p, result_session_id))
        /\ WF_vars(PromptTimeout(p))
        /\ WF_vars(TimeoutElapses(p))

SpecPromptLive == SpecPrompt /\ PromptFairness

-----------------------------------------------------------------------------
(* Properties *)

\* the snapshots that differ in what they say of one tmux session: it is absent,
\* present without a client, present with a client
Snapshots(tmux_session) ==
    {[n \in {} |-> FALSE], [n \in {tmux_session} |-> FALSE], [n \in {tmux_session} |-> TRUE]}

\* the row with the id, which is there
RowOf(S, session_id) == CHOOSE r \in S : r.id = session_id

\* C1: a row whose stored status is archived keeps that status through reconcile
\* calls, the CLI's and the TUI's, in any order and under any tmux snapshot (the
\* CLI's two tmux queries may even see different ones): neither function calls
\* update_status for it, once or twice in a row.
ArchivedIsSticky ==
    \A r \in store : r.status = "archived" =>
        \A e1 \in Snapshots(r.tmux_session), a1 \in Snapshots(r.tmux_session),
           e2 \in Snapshots(r.tmux_session), a2 \in Snapshots(r.tmux_session) :
           LET c1 == sync_session_status(store, clock, logs, r, e1, a1)
               t1 == tui_sync_session_status(store, clock, r, e1)
               cc == sync_session_status(c1.store, c1.clock, logs, RowOf(c1.store, r.id), e2, a2)
               ct == tui_sync_session_status(c1.store, c1.clock, RowOf(c1.store, r.id), e2)
               tc == sync_session_status(t1.store, t1.clock, logs, RowOf(t1.store, r.id), e2, a2)
               tt == tui_sync_session_status(t1.store, t1.clock, RowOf(t1.store, r.id), e2)
           IN \A after \in {c1, t1, cc, ct, tc, tt} :
                 /\ ~after.wrote
                 /\ RowOf(after.store, r.id).status = "archived"

\* the TUI shows archived sessions, refresh_sessions has just reconciled one whose
\* tmux session name is alive, and the row is still archived
ArchivedIsSticky_Witness ==
    /\ tui.open
    /\ tui.show_archived
    /\ \E s \in tui.sessions :
          /\ s.status = "archived"
          /\ s.tmux_session \in DOMAIN tmuxSessions
          /\ \E r \in store : r.id = s.id /\ r.status = "archived"

\* C2: for every row that is not archived and has a tmux session name, and every
\* snapshot, the stored status after reconcile is active when the name is in the
\* snapshot and attached, detached when it is in the snapshot and not attached,
\* idle when it is absent; for the CLI's function and the TUI's.
ReconcileDerivesStatus ==
    \A r \in store : (r.status /= "archived" /\ r.tmux_session /= NoText) =>
        \A m \in Snapshots(r.tmux_session) :
           LET c == RowOf(sync_session_status(store, clock, logs, r, m, m).store, r.id).status
               t == RowOf(tui_sync_session_status(store, clock, r, m).store, r.id).status
               present == r.tmux_session \in DOMAIN m
           IN /\ (present /\ m[r.tmux_session]) => (c = "active" /\ t = "active")
              /\ (present /\ ~m[r.tmux_session]) => (c = "detached" /\ t = "detached")
              /\ ~present => (c = "idle" /\ t = "idle")

\* a reconcile has stored detached for a row whose tmux session is alive with no
\* client on it
ReconcileDerivesStatus_Witness ==
    \E r \in store :
        /\ r.status = "detached"
        /\ r.tmux_session \in DOMAIN tmuxSessions
        /\ tmuxSessions[r.tmux_session] = 0

\* C3: reconcile applied twice in a row to the same session under the same
\* snapshot: the second application does not call update_status, and leaves the
\* store (status and last_activity with it) and the clock as the first left them.
ReconcileIdempotent ==
    \A r \in store : \A m \in Snapshots(r.tmux_session) :
        LET c1 == sync_session_status(store, clock, logs, r, m, m)
            c2 == sync_session_status(c1.store, c1.clock, logs, RowOf(c1.store, r.id), m, m)
            t1 == tui_sync_session_status(store, clock, r, m)
            t2 == tui_sync_session_status(t1.store, t1.clock, RowOf(t1.store, r.id), m)
        IN /\ ~c2.wrote /\ c2.store = c1.store /\ c2.clock = c1.clock
           /\ ~t2.wrote /\ t2.store = t1.store /\ t2.clock = t1.clock

\* a row whose stored status is stale against the live tmux sessions: the first
\* reconcile writes
ReconcileIdempotent_Witness ==
    \E r \in store :
        /\ r.status /= "archived"
        /\ sync_session_status(store, clock, logs, r, Map, Map).wrote
        /\ tui_sync_session_status(store, clock, r, Map).wrote

\* C4: the orphan cleanup of on_mount kills no tmux session whose name is the
\* tmux_session of a stored row, archived rows included.
ReapSparesTracked ==
    [][(\E cwd \in Dirs : TuiMount(cwd)) =>
          \A r \in store : r.tmux_session \in DOMAIN tmuxSessions =>
                              r.tmux_session \in DOMAIN tmuxSessions']_vars

\* the TUI is up after a cleanup that killed an orphan, and the tmux session an
\* archived row names is alive
ReapSparesTracked_Witness ==
    /\ tui.open
    /\ tui.cleaned > 0
    /\ \E r \in store : r.status = "archived" /\ r.tmux_session \in DOMAIN tmuxSessions

ListingStep ==
    \/ \E include_all \in BOOLEAN, cwd \in Dirs \cup {NoText} : ListCmd(include_all, cwd)
    \/ \E cwd \in Dirs : StatusCmd(cwd)
    \/ \E cwd \in Dirs : TuiMount(cwd)
    \/ TuiRefresh

\* C6: every listing is preceded, within the same operation, by the orphan
\* cleanup: when the listing is shown, no live tmux session with the prefix is
\* left that no stored row names.
ReapBeforeEveryListing ==
    [][ListingStep => Orphans(store', get_sessions_map(tmuxSessions', tmuxInstalled')) = {}]_vars

\* C7: SessionDB.create_session, as clux new calls it: when a row with the same
\* (name, working_directory) is there it raises DatabaseError and leaves the
\* table as it was; otherwise (a row with the same name in another directory or
\* not) it adds one idle row with a fresh id and leaves the other rows alone.
DuplicateCreateFails ==
    [][\A p \in Procs : NewInsert(p) =>
          LET me == procs[p]
              same == {r \in store : r.name = me.name /\ r.working_directory = me.cwd}
          IN IF same /= {}
                THEN /\ store' = store
                     /\ procs'[p].err = "DatabaseError"
                ELSE /\ store \subseteq store'
                     /\ Cardinality(store') = Cardinality(store) + 1
                     /\ \E r \in store' \ store :
                           /\ r.name = me.name
                           /\ r.working_directory = me.cwd
                           /\ r.status = "idle"
                           /\ \A q \in store : q.id /= r.id
                     /\ procs'[p].err = ""]_vars

\* an invocation ended with the DatabaseError of a duplicate, and the table
\* holds two rows with one name in two directories
DuplicateCreateFails_Witness ==
    /\ \E p \in Procs : procs[p].err = "DatabaseError"
    /\ \E r, q \in store : r.name = q.name /\ r.working_directory /= q.working_directory

\* C8: in every reachable state no two rows have the same (name,
\* working_directory), whatever way two invocations of clux new, archive, restore,
\* delete and reconcile interleave.
UniqueNameAndDirectory ==
    \A r, q \in store :
        (r.name = q.name /\ r.working_directory = q.working_directory) => r = q

\* two invocations of clux new for the same (name, directory) are both past the
\* lookup; one has inserted its row, the other is about to insert
UniqueNameAndDirectory_Witness ==
    \E p, q \in Procs :
        /\ p /= q
        /\ procs[p].pc = "new_insert"
        /\ procs[q].pc \in {"new_tmux", "attached"}
        /\ procs[p].name = procs[q].name
        /\ procs[p].cwd = procs[q].cwd
        /\ get_session_by_id(store, procs[q].sid) /= {}

\* C9: in every reachable state, for every row, archived_at is set if and only if
\* the status is archived.
ArchivedAtIffArchived ==
    \A r \in store : (r.archived_at /= NoTime) <=> (r.status = "archived")

\* C10: when clux new has inserted its row and the creation of the tmux session
\* does not succeed (tmux.create_session returns False, or raises because tmux is
\* not installed), the row is gone when the command ends.
FailedCreateRollsBack ==
    [][\A p \in Procs : (NewTmux(p) /\ procs'[p].pc /= "attached") =>
          get_session_by_id(store', procs[p].sid) = {}]_vars

-----------------------------------------------------------------------------
(* clux next *)

\* the tmux session the client is on after n runs of clux next, each from the
\* session the run before switched to; tmux is installed and every
\* tmux.create_session succeeds
RECURSIVE NextTimes(_, _, _, _, _)
NextTimes(n, S, clk, T, tmux_name) ==
    IF n = 0 \/ get_session_by_tmux_name(S, tmux_name) = {} THEN tmux_name
    ELSE LET session == CHOOSE r \in get_session_by_tmux_name(S, tmux_name) : TRUE
             r == next_cmd(S, clk, T, TRUE, tmux_name, session, TRUE)
         IN NextTimes(n - 1, r.store, r.clock, r.tmux,
                      IF r.msg = "Switched to"
                         THEN next_tmux_name(RowOf(r.store, r.target)) ELSE tmux_name)

\* C11: from a non-archived session whose tmux session is live and holds the
\* client, in a directory with N >= 2 non-archived sessions, N runs of clux
\* next, each from the session just switched to, end on the starting session,
\* whether the siblings' tmux sessions are live or absent.
NextCyclesBack ==
    \A r \in store :
        /\ r.status /= "archived"
        /\ r.tmux_session \in DOMAIN tmuxSessions
        /\ tmuxSessions[r.tmux_session] >= 1
        /\ Len(list_sessions(store, FALSE, r.working_directory)) >= 2
        => NextTimes(Len(list_sessions(store, FALSE, r.working_directory)),
                     store, clock, tmuxSessions, r.tmux_session) = r.tmux_session

\* C12: clux next, run from any stored session that is not archived and has a
\* sibling, goes for the session at position (index + 1) mod length of the
\* non-archived sessions of the same directory in descending last_activity,
\* where index is the current session's position: with tmux.create_session
\* succeeding it always has such a target, and it never has another one.
NextPicksFollowingSibling ==
    \A r \in store, created \in BOOLEAN :
        LET R == {q \in store : /\ q.status /= "archived"
                                /\ q.working_directory = r.working_directory}
            rank(q) == Cardinality({x \in R : x.last_activity > q.last_activity})
            out == next_cmd(store, clock, tmuxSessions, tmuxInstalled, r.tmux_session,
                            r, created)
        IN r \in R /\ Cardinality(R) >= 2 =>
              /\ created => out.target /= 0
              /\ out.target /= 0 =>
                    \E q \in R : /\ q.id = out.target
                                 /\ rank(q) = (rank(r) + 1) % Cardinality(R)

\* clux next has switched to the head of a list of three sessions none of which
\* was touched since the start: it ran from the last one and wrapped around
NextPicksFollowingSibling_Witness ==
    /\ procs[1].err = "Switched to"
    /\ \E q \in store :
          /\ q.id = procs[1].sid
          /\ Cardinality({x \in store : /\ x.status /= "archived"
                                        /\ x.working_directory = q.working_directory}) = 3
          /\ \A x \in store : x.last_activity < 0 /\ x.last_activity <= q.last_activity

\* C13: clux next, run from a stored session that is not in the list of its
\* directory's non-archived sessions (it is archived), displays "Current session
\* not found in list" however many sessions that list holds, and changes neither
\* the store nor the tmux sessions.
NextOutsideListNotInList ==
    \A r \in store, created \in BOOLEAN :
        LET out == next_cmd(store, clock, tmuxSessions, tmuxInstalled, r.tmux_session,
                            r, created)
        IN r.status = "archived" =>
              /\ out.msg = "Current session not found in list"
              /\ out.store = store
              /\ out.tmux = tmuxSessions

\* C14: clux next, run from a stored session whose directory holds at most one
\* session that is not archived, displays "No other sessions in this project",
\* has no target (not even the current session), writes nothing to the store and
\* creates no tmux session.
NextAloneNoOtherSession ==
    \A r \in store, created \in BOOLEAN :
        LET out == next_cmd(store, clock, tmuxSessions, tmuxInstalled, r.tmux_session,
                            r, created)
        IN Cardinality({q \in store : /\ q.status /= "archived"
                                      /\ q.working_directory = r.working_directory}) <= 1
           => /\ out.msg = "No other sessions in this project"
              /\ out.target = 0
              /\ out.store = store
              /\ out.clock = clock
              /\ out.tmux = tmuxSessions

\* clux next has displayed the message in a project where a live session is the
\* only one not archived, next to an archived one
NextAloneNoOtherSession_Witness ==
    /\ procs[1].err = "No other sessions in this project"
    /\ \E r \in store, a \in store :
          /\ r.status /= "archived"
          /\ r.tmux_session \in DOMAIN tmuxSessions
          /\ a.status = "archived"
          /\ a.working_directory = r.working_directory
          /\ \A q \in store : q.working_directory = r.working_directory /\ q.id /= r.id
                              => q.status = "archived"

-----------------------------------------------------------------------------
(* The Claude session id *)

\* C15: a reconcile of a row without a Claude session id, whatever its status and
\* whatever the tmux snapshot, stores the newest Claude session of the row's
\* directory written after the row's creation, if there is one; the CLI's
\* sync_session_status does, and so does the TUI's.
ReconcileBackfills ==
    \A r \in store : \A e \in Snapshots(r.tmux_session) :
        LET newer == {l \in logs : l.wd = r.working_directory /\ l.mtime > r.created_at}
            cli == sync_session_status(store, clock, logs, r, e, e)
            app == tui_sync_session_status(store, clock, r, e)
        IN r.claude_session_id = NoText /\ newer /= {} =>
              \E l \in newer :
                 /\ \A k \in newer : k.mtime <= l.mtime
                 /\ RowOf(cli.store, r.id).claude_session_id = l.uuid
                 /\ RowOf(app.store, r.id).claude_session_id = l.uuid

\* C16: a reconcile of a session whose stored Claude session id is set neither
\* calls update_claude_session_id nor changes the stored id: the
\* sync_session_status a command runs on a session it has just read, and the one
\* attach_cmd runs after the detach (line 284), which follows the capture of
\* lines 280-282.
ReconcileKeepsCapturedId ==
    /\ \A r \in store : \A e \in Snapshots(r.tmux_session) :
          LET out == sync_session_status(store, clock, logs, r, e, e)
          IN r.claude_session_id /= NoText =>
                /\ ~out.captured
                /\ RowOf(out.store, r.id).claude_session_id = r.claude_session_id
    /\ \A p \in Procs : \A r \in store :
          LET out == attach_post(store, clock, logs, r, procs[p].cwd, procs[p].launch_time,
                                 Map)
              stored == RowOf(out.before_sync, r.id).claude_session_id
          IN procs[p].pc = "post" /\ procs[p].cmd = "attach" /\ procs[p].sid = r.id
             /\ stored /= NoText
             => /\ ~out.sync.captured
                /\ RowOf(out.sync.store, r.id).claude_session_id = stored

\* C17: no step of reconcile (list), attach, kill, close, archive, restore, next
\* or prompt, and no step of the world, takes a stored Claude session id away:
\* a row that has one and is still there after the step has one after it.
CapturedIdStays ==
    [][\A r \in store : r.claude_session_id /= NoText =>
          \A q \in store' : q.id = r.id => q.claude_session_id /= NoText]_vars

\* clux prompt has replaced a stored id by the one the claude run reported, and
\* the session was archived after that: it still has an id
CapturedIdStays_Witness ==
    \E r \in store : r.claude_session_id = "u2" /\ r.status = "archived"

-----------------------------------------------------------------------------
(* Archived sessions *)

\* C18: a step leaves the stored status of an archived session alone unless it
\* restores the session (restore_session makes it idle and clears archived_at)
\* or deletes it; attach, kill, next and the TUI's attach do not make it
\* active, detached or idle.
ArchivedUntilRestored ==
    [][\A r \in store : r.status = "archived" =>
          \A q \in store' : q.id = r.id =>
             \/ q.status = "archived"
             \/ q = [r EXCEPT !.status = "idle", !.archived_at = NoTime]]_vars

-----------------------------------------------------------------------------
(* The store's queries *)

\* C19: when clux new creates the session for a (name, working directory) the
\* table has no row for, get_session(name, working_directory) right after the
\* create returns one row, with that name and directory, status idle and no
\* Claude session id.
CreateThenGet ==
    [][\A p \in Procs :
          NewInsert(p) /\ get_session(store, procs[p].name, procs[p].cwd) = {} =>
             \E r \in store' :
                /\ get_session(store', procs[p].name, procs[p].cwd) = {r}
                /\ r.name = procs[p].name
                /\ r.working_directory = procs[p].cwd
                /\ r.status = "idle"
                /\ r.claude_session_id = NoText]_vars

\* an invocation of clux new has just created its row, which get_session
\* returns, while the same name has a row in the other directory
CreateThenGet_Witness ==
    \E p \in Procs :
        /\ procs[p].pc = "new_tmux"
        /\ \E r \in get_session(store, procs[p].name, procs[p].cwd) :
              /\ r.id = procs[p].sid
              /\ r.created_at = clock
              /\ r.status = "idle"
        /\ \E q \in store : q.name = procs[p].name /\ q.working_directory /= procs[p].cwd

\* C20: list_sessions(include_archived, working_directory) returns each stored
\* row once that is not archived unless include_archived, and is of the given
\* directory when one is given; it returns no other row; and a row never comes
\* before one with a later last_activity.
ListIsFilteredAndOrdered ==
    \A include_archived \in BOOLEAN, working_directory \in Dirs \cup {NoText} :
        LET l == list_sessions(store, include_archived, working_directory)
            match == {r \in store :
                        /\ r.status = "archived" => include_archived
                        /\ working_directory /= NoText => r.working_directory = working_directory}
        IN /\ {l[i] : i \in DOMAIN l} = match
           /\ Len(l) = Cardinality(match)
           /\ \A i, j \in DOMAIN l : i < j => l[i].last_activity >= l[j].last_activity

\* clux next has listed a directory of three sessions, one of them archived and
\* so left out, and has switched to the other one it listed
ListIsFilteredAndOrdered_Witness ==
    /\ procs[1].err = "Switched to"
    /\ \E r \in store, a \in store :
          /\ r.id = procs[1].sid
          /\ a.status = "archived"
          /\ a.working_directory = r.working_directory
          /\ Len(list_sessions(store, FALSE, r.working_directory)) = 2
          /\ Len(list_sessions(store, TRUE, NoText)) = 3

-----------------------------------------------------------------------------
(* Archive and restore *)

\* C21: clux restore of an archived session leaves it with status idle and no
\* archived_at, whatever status it was archived from and whether or not its tmux
\* session is alive.
RestoreGivesIdle ==
    [][\A name \in Names, cwd \in Dirs : RestoreCmd(name, cwd) =>
          \A r \in store :
             r.name = name /\ r.working_directory = cwd /\ r.status = "archived" =>
                \E q \in store' : /\ q.id = r.id
                                  /\ q.status = "idle"
                                  /\ q.archived_at = NoTime]_vars

\* session a was archived at 1 and is idle again without archived_at, while a
\* tmux session of its name is alive
RestoreGivesIdle_Witness ==
    \E r \in store :
        /\ r.status = "idle"
        /\ r.archived_at = NoTime
        /\ r.last_activity = 1
        /\ clock = 1
        /\ r.tmux_session \in DOMAIN tmuxSessions

\* the row q is the row r as far as archive and restore must leave it alone
SameSession(r, q) ==
    /\ q.id = r.id
    /\ q.name = r.name
    /\ q.working_directory = r.working_directory
    /\ q.created_at = r.created_at
    /\ q.tmux_session = r.tmux_session
    /\ q.claude_session_id = r.claude_session_id

\* a row of the store is gone after the step
RowRemoved == \E r \in store : \A q \in store' : q.id /= r.id

\* C22 as stated: clux archive and clux restore keep every row, with its id,
\* name, working directory, created_at, tmux session name and Claude session id;
\* and a step that removes a row is a step of clux delete.
ArchiveKeepsRowOnlyDeleteRemoves ==
    [][/\ \A name \in Names, cwd \in Dirs :
             ArchiveCmd(name, cwd) \/ RestoreCmd(name, cwd) =>
                \A r \in store : \E q \in store' : SameSession(r, q)
       /\ RowRemoved => \E name \in Names, cwd \in Dirs : DeleteCmd(name, cwd)]_vars

\* C22, amended: archive and restore keep every row and its identifying fields;
\* a step that removes a row is a step of clux delete, or the step of clux new
\* in which tmux.create_session returned False, which removes the one row that
\* invocation inserted.
ArchiveKeepsRowCreateMayRollBack ==
    [][/\ \A name \in Names, cwd \in Dirs :
             ArchiveCmd(name, cwd) \/ RestoreCmd(name, cwd) =>
                \A r \in store : \E q \in store' : SameSession(r, q)
       /\ RowRemoved =>
             \/ \E name \in Names, cwd \in Dirs : DeleteCmd(name, cwd)
             \/ \E p \in Procs :
                   /\ NewTmux(p)
                   /\ procs'[p].err = "create_failed"
                   /\ store' = {r \in store : r.id /= procs[p].sid}]_vars

\* clux new has ended because tmux.create_session returned False, and the row it
\* had inserted, the only one so far, is gone though nobody ran clux delete
ArchiveKeepsRowCreateMayRollBack_Witness ==
    /\ procs[1].err = "create_failed"
    /\ nextId = 2
    /\ store = {}
    /\ clock = 1

-----------------------------------------------------------------------------
(* Session names *)

\* a valid session name as the specification words it: not empty, at most 50
\* characters, the first one alphanumeric, every other one alphanumeric, a
\* hyphen or an underscore
WellFormed(name) ==
    /\ Len(name) >= 1
    /\ Len(name) <= SESSION_NAME_MAX
    /\ CharAt(name, 1) \in Alnum
    /\ \A i \in 2..Len(name) : CharAt(name, i) \in Alnum \cup {"-", "_"}

\* C23: clux new rejects the name it is given with "Invalid session name" exactly
\* when the name is not a valid session name; a name that ends in a newline is
\* rejected.
NameAcceptedIffWellFormed ==
    [][\A p \in Procs, name \in TypedNames, cwd \in ValidateDirs :
          NewStart(p, name, cwd) =>
             (procs'[p].err = "invalid_name" <=> ~WellFormed(name))]_vars

\* C24: clux new, clux new-here and the TUI's create, given a name that is not a
\* valid session name, end with an error and leave the rows and the tmux
\* sessions as they were; clux new ends at its first step, before a row is
\* written or a tmux session is killed or created.
InvalidNameChangesNothing ==
    [][\A name \in TypedNames : ~WellFormed(name) =>
          /\ \A p \in Procs, cwd \in ValidateDirs :
                NewStart(p, name, cwd) => procs'[p].err = "invalid_name"
          /\ \A p \in Procs, tmux_name \in DOMAIN tmuxSessions \cup {r.tmux_session : r \in store} :
                NewHereCmd(p, name, tmux_name) =>
                   /\ store' = store
                   /\ tmuxSessions' = tmuxSessions
                   /\ procs'[p].err \in {"Not a clux session", "Session not found",
                                         "Invalid name"}
          /\ TuiCreate(name) => store' = store /\ tmuxSessions' = tmuxSessions]_vars

-----------------------------------------------------------------------------
(* tmux and the Claude logs *)

\* C25: while the tmux binary is absent, the queries get_sessions_map,
\* session_exists and is_attached give no sessions and FALSE, whatever tmux
\* sessions there may be, and a command that comes to tmux.create_session or
\* tmux.attach_session (clux new, clux attach) ends with TmuxNotInstalled and
\* without a new tmux session.
TmuxAbsentFailsOrDegrades ==
    [][~tmuxInstalled =>
          /\ \A T \in {tmuxSessions} \cup
                      {[n \in {name} |-> c] : name \in ForeignTmux, c \in 0..MaxClients} :
                LET m == get_sessions_map(T, tmuxInstalled)
                IN /\ DOMAIN m = {}
                   /\ \A name \in ForeignTmux \cup DOMAIN T :
                         ~session_exists(name, m) /\ ~is_attached(name, m)
          /\ \A p \in Procs : NewTmux(p) =>
                /\ procs'[p].err = "TmuxNotInstalled"
                /\ tmuxSessions' = tmuxSessions
          /\ \A p \in Procs, name \in Names, cwd \in Dirs : AttachStart(p, name, cwd) =>
                /\ procs'[p].err \in {"not_found", "archived", "TmuxNotInstalled"}
                /\ tmuxSessions' = tmuxSessions]_vars

\* tmux is absent, and a command has ended with TmuxNotInstalled where it came
\* to tmux.create_session, the one row of the table being as it was inserted
TmuxAbsentFailsOrDegrades_Witness ==
    /\ ~tmuxInstalled
    /\ procs[1].err = "TmuxNotInstalled"
    /\ \E r \in store : r.last_activity = r.created_at
    /\ nextId = 2
    /\ clock = 1

\* C26: find_session_after_time(working_directory, after_timestamp) returns the
\* id of an entry of the directory modified strictly after the timestamp than
\* which none of these was modified later, and nothing when the directory has
\* no entry modified strictly after the timestamp (none at all, or only ones
\* modified at the timestamp or before).
SessionAfterIsNewestStrictlyAfter ==
    \A wd \in Dirs, after \in -1..(MaxClock + 1) :
        LET newer == {e \in logs : e.wd = wd /\ e.mtime > after}
            got == find_session_after_time(logs, wd, after)
        IN IF newer = {} THEN got = NoText
           ELSE \E e \in newer : /\ e.uuid = got
                                 /\ \A f \in newer : f.mtime <= e.mtime

\* clux list has stored, for a session without an id, the later of two Claude
\* sessions written to its directory after it was created
SessionAfterIsNewestStrictlyAfter_Witness ==
    \E r \in store, e1 \in logs, e2 \in logs :
        /\ e1.wd = r.working_directory
        /\ e2.wd = r.working_directory
        /\ r.created_at < e1.mtime
        /\ e1.mtime < e2.mtime
        /\ r.claude_session_id = e2.uuid

\* C27: cleanup_orphaned_tmux run a second time, on the rows and the tmux
\* sessions the TUI's start has left, finds nothing to kill.
ReapTwiceKillsNothing ==
    [][(\E cwd \in Dirs : TuiMount(cwd)) =>
          /\ Orphans(store', get_sessions_map(tmuxSessions', tmuxInstalled')) = {}
          /\ cleanup_orphaned_tmux(store', tmuxSessions', tmuxInstalled').tmux = tmuxSessions']_vars

\* the TUI is up after a cleanup that killed an orphan, and the tmux session of
\* a session that is not archived is alive
ReapTwiceKillsNothing_Witness ==
    /\ tui.open
    /\ tui.cleaned > 0
    /\ \E r \in store : r.status /= "archived" /\ r.tmux_session \in DOMAIN tmuxSessions

\* C28: cleanup_orphaned_tmux leaves every tmux session whose name does not
\* start with clux- alive with its clients, and leaves the rows as they are.
ReapSparesOtherNamesAndRows ==
    LET c == cleanup_orphaned_tmux(store, tmuxSessions, tmuxInstalled)
    IN /\ c.store = store
       /\ \A n \in DOMAIN tmuxSessions :
             ~HasPrefix(n) => n \in DOMAIN c.tmux /\ c.tmux[n] = tmuxSessions[n]

\* a tmux session without the prefix is alive next to an orphan and a row, the
\* TUI is not up: its start will run the cleanup on them
ReapSparesOtherNamesAndRows_Witness ==
    /\ ~tui.open
    /\ store /= {}
    /\ "main" \in DOMAIN tmuxSessions
    /\ cleanup_orphaned_tmux(store, tmuxSessions, tmuxInstalled).killed /= {}

\* C29: when the claude process that run_prompt started still runs once the
\* timeout has passed, whether or not it has closed its stdout, run_prompt
\* returns the result whose error is "Timeout expired".
PromptTimesOut ==
    \A p \in MainProcs :
        (/\ procs[p].pc \in {"reading", "waiting"}
         /\ procs[p].overdue
         /\ procs[p].child \in {"streaming", "silent"})
        ~> (procs[p].pc = "idle" /\ procs[p].err = "Timeout expired")

-----------------------------------------------------------------------------
(* clux next and the session it switches to *)

\* C30: when clux next has picked a session whose tmux session is alive, it
\* creates no tmux session, sends no keys and leaves the rows as they are; when
\* it creates a tmux session, the one it creates is that of the picked session,
\* which was not alive, and the command it types there has --resume with the
\* session's Claude session id if the session has one and no --resume if not.
NextCreatesOnlyForDeadTarget ==
    \A r \in store, created \in BOOLEAN :
        (r.tmux_session \in DOMAIN tmuxSessions /\ HasPrefix(r.tmux_session)) =>
        LET out == next_cmd(store, clock, tmuxSessions, tmuxInstalled, r.tmux_session,
                            r, created)
        IN \A t \in store :
              t.id = out.target =>
              LET live == next_tmux_name(t) \in DOMAIN tmuxSessions
                  id == t.claude_session_id
              IN /\ live => /\ DOMAIN out.tmux = DOMAIN tmuxSessions
                            /\ out.keys = <<>>
                            /\ out.store = store
                 /\ ~live => /\ DOMAIN out.tmux = DOMAIN tmuxSessions \cup {next_tmux_name(t)}
                             /\ out.keys /= <<>>
                             /\ id /= NoText =>
                                   \E i \in 1..(Len(out.keys) - 1) :
                                      out.keys[i] = "--resume" /\ out.keys[i + 1] = id
                             /\ id = NoText =>
                                   \A i \in 1..Len(out.keys) : out.keys[i] /= "--resume"

\* clux next has just started the tmux session of a session that has a Claude
\* session id, and marked it active
NextCreatesOnlyForDeadTarget_Witness ==
    \E t \in store :
        /\ procs[1].sid = t.id
        /\ procs[1].err \in {"Switched to", "Failed to switch to"}
        /\ t.claude_session_id /= NoText
        /\ t.status = "active"
        /\ t.last_activity = clock
        /\ t.tmux_session \in DOMAIN tmuxSessions

-----------------------------------------------------------------------------
(* Reconciliation while tmux changes *)

\* C31: the status a reconcile of clux list writes is the status of one state
\* tmux was in during the call: the one tmux.session_exists saw or the one
\* tmux.is_attached saw (no tmux session is in any other state in between).
ReconcileWritesOneSnapshot ==
    [][\A p \in MainProcs :
          SyncAttached(p) =>
             LET session == Head(procs[p].todo)
                 seen == procs[p].exists_map
                 now == get_sessions_map(tmuxSessions, tmuxInstalled)
             IN \A r \in store, q \in store' :
                   (r.id = session.id /\ q.id = session.id /\ q.status /= r.status) =>
                      q.status \in {DerivedStatus(session.tmux_session, seen, seen),
                                    DerivedStatus(session.tmux_session, now, now)}]_vars

-----------------------------------------------------------------------------
(* The tmux session names of the rows *)

\* C32: no two rows with different ids have the same tmux_session other than
\* the empty one, whichever of clux new, clux new-here and the TUI's create
\* made them.
TmuxNamesDistinct ==
    \A r \in store, q \in store :
        (r.id /= q.id /\ r.tmux_session /= NoText) => r.tmux_session /= q.tmux_session

\* a step in which a creating command kills the tmux session that has the name
\* of the session it creates, if there is one
CreateStep ==
    \/ \E p \in MainProcs : NewKill(p)
    \/ \E p \in MainProcs, name \in Names, tmux_name \in DOMAIN tmuxSessions :
          NewHereCmd(p, name, tmux_name)
    \/ \E name \in Names : TuiCreate(name)

\* C33: a creating command ends no tmux session that a row stored before the
\* command names: a tmux session of a stored row that is alive before the step
\* is alive after it.
CreateSparesTracked ==
    [][CreateStep =>
          \A r \in store :
             (r.tmux_session /= NoText /\ r.tmux_session \in DOMAIN tmuxSessions) =>
                r.tmux_session \in DOMAIN tmuxSessions']_vars

-----------------------------------------------------------------------------
(* The Claude session ids of the rows *)

\* C34: no two rows with different ids have the same claude_session_id other
\* than the empty one.
ClaudeIdsDistinct ==
    \A r \in store, q \in store :
        (r.id /= q.id /\ r.claude_session_id /= NoText) =>
           r.claude_session_id /= q.claude_session_id

-----------------------------------------------------------------------------
(* Invocations that run at the same time *)

\* C35: the kill loop of a starting TUI's orphan cleanup does not end the tmux
\* session that a clux new still running has started for the row it inserted.
ReapSparesSessionBeingCreated ==
    [][(\E p \in ReapProcs : ReapKill(p)) =>
          \A q \in Procs :
             (/\ procs[q].cmd = "new"
              /\ procs[q].pc = "attached"
              /\ \E r \in store : r.id = procs[q].sid /\ r.tmux_session = procs[q].tmux_name
              /\ procs[q].tmux_name \in DOMAIN tmuxSessions)
             => procs[q].tmux_name \in DOMAIN tmuxSessions']_vars

\* C36: the kill of lines 120-122 in a clux new for a (name, directory) whose
\* row another invocation has stored does not end the tmux session of that row.
LoserSparesWinner ==
    [][\A p \in Procs :
          NewKill(p) =>
             \A r \in store :
                (/\ r.name = procs[p].name
                 /\ r.working_directory = procs[p].cwd
                 /\ r.tmux_session \in DOMAIN tmuxSessions)
                => r.tmux_session \in DOMAIN tmuxSessions']_vars

-----------------------------------------------------------------------------
(* The stored status once a command is over *)

\* C37: when no command is running (the TUI is closed, its attach has returned,
\* and no clux new or clux attach is under way), no row is stored active whose
\* tmux session is gone or has no client.
NoStaleActiveAfterCommand ==
    (~tui.open /\ \A p \in Procs : procs[p].pc = "idle") =>
       \A r \in store :
          r.status = "active" =>
             /\ r.tmux_session \in DOMAIN tmuxSessions
             /\ tmuxSessions[r.tmux_session] >= 1

-----------------------------------------------------------------------------
(* clux kill *)

\* C38: clux kill on a session whose tmux session runs ends that tmux session
\* and no other, and leaves the session's row with status idle, with the Claude
\* session id it had or, if it had none, the newest one written to its
\* directory after its creation (none if there is no such log), and with its
\* id, name, directory, creation time and tmux name; the other rows stay as
\* they are. On a session whose tmux session does not run it changes neither
\* the rows nor the tmux sessions.
KillKeepsResumable ==
    [][\A name \in Names, cwd \in Dirs :
          KillCmd(name, cwd) =>
             \A r \in store :
                (r.name = name /\ r.working_directory = cwd) =>
                   IF r.tmux_session /= NoText /\ r.tmux_session \in DOMAIN tmuxSessions
                      THEN LET newer == {l \in logs : l.wd = cwd /\ l.mtime > r.created_at}
                           IN /\ DOMAIN tmuxSessions' = DOMAIN tmuxSessions \ {r.tmux_session}
                              /\ \A n \in DOMAIN tmuxSessions' : tmuxSessions'[n] = tmuxSessions[n]
                              /\ \A o \in store : o.id /= r.id => o \in store'
                              /\ Cardinality(store') = Cardinality(store)
                              /\ \E q \in store' :
                                    /\ q.id = r.id
                                    /\ q.name = r.name
                                    /\ q.working_directory = r.working_directory
                                    /\ q.created_at = r.created_at
                                    /\ q.tmux_session = r.tmux_session
                                    /\ q.status = "idle"
                                    /\ r.claude_session_id /= NoText =>
                                          q.claude_session_id = r.claude_session_id
                                    /\ (r.claude_session_id = NoText /\ newer = {}) =>
                                          q.claude_session_id = NoText
                                    /\ (r.claude_session_id = NoText /\ newer /= {}) =>
                                          \E l \in newer :
                                             /\ \A k \in newer : k.mtime <= l.mtime
                                             /\ q.claude_session_id = l.uuid
                      ELSE /\ store' = store
                           /\ tmuxSessions' = tmuxSessions]_vars

\* a session that was archived and whose tmux session ran again has been killed:
\* its row is idle and has its Claude session id
KillKeepsResumable_Witness ==
    \E r \in store :
        /\ r.status = "idle"
        /\ r.archived_at /= NoTime
        /\ r.claude_session_id /= NoText
        /\ r.tmux_session \notin DOMAIN tmuxSessions

====
